---- MODULE Spec2Model ----
(***************************************************************************)
(* Brush-stroke pipeline of PaintBoard (src-tauri/src/brush):              *)
(*   - StrokeBuffer (stroke_buffer.rs): begin_stroke / stamp_dab /         *)
(*     end_stroke / resize over a premultiplied pixel raster, with Rect    *)
(*     dirty tracking and Pixel 8-bit conversions;                         *)
(*   - the six blend functions and BlendFunc::apply (blend.rs);            *)
(*   - BrushStamper (stamper.rs): process_point and its resampling.        *)
(* Tablet input (src-tauri/src/input): the mutex-guarded event queue      *)
(* that push_input, the WinTab polling thread and poll share.              *)
(*                                                                         *)
(* Numbers.  The code computes in f32.  Here an f32 in [0,1] (a colour or  *)
(* alpha component, a ratio) is a fixed-point integer counting steps of    *)
(* 1/ONE, and a length in pixels counts steps of 1/PX pixel.  Sums and     *)
(* differences are exact; every product, quotient and square root is       *)
(* rounded to the nearest step, as IEEE-754 rounds each operation.         *)
(***************************************************************************)
EXTENDS Integers, Sequences, FiniteSets, TLC

----------------------------------------------------------------------------
(* Fixed-point arithmetic *)

\* 1.0 of a colour/alpha/ratio value: 255 * 160, so that n/255 is exact
ONE == 40800
\* 1.0 pixel of a length
PX == 1000
\* 255.0, the 8-bit scale of from_rgba_u8 / to_rgba_u8
U8 == 255

I32_MAX == 2147483647
I32_MIN == (-2147483647) - 1

Min(a, b) == IF a <= b THEN a ELSE b
Max(a, b) == IF a >= b THEN a ELSE b
Clamp(v, lo, hi) == Min(Max(v, lo), hi)

\* n / d rounded to nearest (n >= 0, d > 0), without overflowing 2n
RoundDiv(n, d) == (n \div d) + (IF 2 * (n % d) >= d THEN 1 ELSE 0)

\* f32 product and quotient of two [0,1]-scaled values
Mul(a, b) == RoundDiv(a * b, ONE)
Div(a, b) == RoundDiv(a * ONE, b)

\* x < 0.001 for a [0,1]-scaled value
Lt001(a) == a * 1000 < ONE

\* floor, ceil and `as i32` (truncation toward zero) of a length, in pixels
Floor(v) == v \div PX
Ceil(v) == -((-v) \div PX)
Trunc(v) == IF v >= 0 THEN v \div PX ELSE -((-v) \div PX)

RECURSIVE SqrtSearch(_, _, _)
SqrtSearch(n, lo, hi) ==
    IF lo >= hi THEN lo
    ELSE LET mid == (lo + hi + 1) \div 2
         IN IF mid * mid <= n THEN SqrtSearch(n, mid, hi)
            ELSE SqrtSearch(n, lo, mid - 1)

\* f32 sqrt: nearest step to the square root of n >= 0
Sqrt(n) ==
    LET s == SqrtSearch(n, 0, 46340)
    IN IF n - s * s > s THEN s + 1 ELSE s

----------------------------------------------------------------------------
(* Rect *)

Rect_new(l, t, r, b) == [left |-> l, top |-> t, right |-> r, bottom |-> b]

Rect_empty == Rect_new(I32_MAX, I32_MAX, I32_MIN, I32_MIN)

is_empty(r) == r.left >= r.right \/ r.top >= r.bottom

\* an expand that leaves out the column and row at x + radius, y + radius
expand_short(r, x, y, radius) ==
    Rect_new(Min(r.left, x - radius), Min(r.top, y - radius),
             Max(r.right, x + radius), Max(r.bottom, y + radius))

\* x, y, radius in whole pixels
expand(r, x, y, radius) ==
    Rect_new(Min(r.left, x - radius), Min(r.top, y - radius),
             Max(r.right, x + radius + 1), Max(r.bottom, y + radius + 1))

\* union without the test for an empty other
union_without_check(self, other) ==
    Rect_new(Min(self.left, other.left), Min(self.top, other.top),
             Max(self.right, other.right), Max(self.bottom, other.bottom))

\* self.union(&other): self afterwards
union(self, other) ==
    IF is_empty(other) THEN self
    ELSE Rect_new(Min(self.left, other.left), Min(self.top, other.top),
                  Max(self.right, other.right), Max(self.bottom, other.bottom))

\* a clamp that keeps the rect as it is
clamp_to_nothing(r, w, h) == r

clamp_to(r, w, h) ==
    Rect_new(Max(r.left, 0), Max(r.top, 0), Min(r.right, w), Min(r.bottom, h))

----------------------------------------------------------------------------
(* Pixel *)

Pixel_new(r, g, b, a) == [r |-> r, g |-> g, b |-> b, a |-> a]

transparent == Pixel_new(0, 0, 0, 0)

\* straight 8-bit RGBA to premultiplied
from_rgba_u8(r, g, b, a) ==
    LET a_f == RoundDiv(a * ONE, U8)
    IN Pixel_new(Mul(RoundDiv(r * ONE, U8), a_f),
                 Mul(RoundDiv(g * ONE, U8), a_f),
                 Mul(RoundDiv(b * ONE, U8), a_f),
                 a_f)

\* (v * 255.0) as u8: the product truncated
ToU8(v) == (v * U8) \div ONE

\* premultiplied to straight 8-bit RGBA, as the 4-tuple <<r, g, b, a>>
to_rgba_u8(p) ==
    IF Lt001(p.a) THEN <<0, 0, 0, 0>>
    ELSE LET inv_a == Div(ONE, p.a)
         IN << ToU8(Clamp(Mul(p.r, inv_a), 0, ONE)),
               ToU8(Clamp(Mul(p.g, inv_a), 0, ONE)),
               ToU8(Clamp(Mul(p.b, inv_a), 0, ONE)),
               ToU8(Clamp(p.a, 0, ONE)) >>

\* with_alpha that rescales the colour but keeps the old alpha
with_alpha_keeps_alpha(p, new_alpha) ==
    IF Lt001(p.a) THEN transparent
    ELSE LET scale == Div(new_alpha, p.a)
         IN Pixel_new(Mul(p.r, scale), Mul(p.g, scale), Mul(p.b, scale), p.a)

with_alpha(p, new_alpha) ==
    IF Lt001(p.a) THEN transparent
    ELSE LET scale == Div(new_alpha, p.a)
         IN Pixel_new(Mul(p.r, scale), Mul(p.g, scale), Mul(p.b, scale), new_alpha)

\* a blend that adds the source without attenuating the destination
blend_additive(src, dst) ==
    Pixel_new(src.r + dst.r, src.g + dst.g, src.b + dst.b, src.a + dst.a)

\* Porter-Duff over for premultiplied pixels: src + dst * (1 - src.a)
blend_normal_premul(src, dst) ==
    LET inv_src_a == ONE - src.a
    IN Pixel_new(src.r + Mul(dst.r, inv_src_a),
                 src.g + Mul(dst.g, inv_src_a),
                 src.b + Mul(dst.b, inv_src_a),
                 src.a + Mul(dst.a, inv_src_a))

----------------------------------------------------------------------------
(* Blend modes *)

\* the separable blend formulas, on straight (unpremultiplied) channels
multiply_channel_adds(s, d) == Min(s + d, ONE)
multiply_channel(s, d) == Mul(s, d)
screen_channel(s, d) == ONE - Mul(ONE - s, ONE - d)
\* an overlay that branches on the source, as hard light does
overlay_channel_on_source(s, d) ==
    IF 2 * s < ONE THEN 2 * Mul(s, d) ELSE ONE - 2 * Mul(ONE - s, ONE - d)

overlay_channel(s, d) ==
    IF 2 * d < ONE THEN 2 * Mul(s, d) ELSE ONE - 2 * Mul(ONE - s, ONE - d)
darken_channel(s, d) == Min(s, d)
lighten_channel(s, d) == Max(s, d)

\* an early return that hands back the source where the destination is due
source_clear_returns_source(src, dst) == src

\* what the blend functions return for src.a < 0.001
source_clear_returns(src, dst) == dst

\* the blend formula of a mode
blend_channel(func, s, d) ==
    CASE func = "Multiply" -> multiply_channel(s, d)
      [] func = "Screen" -> screen_channel(s, d)
      [] func = "Overlay" -> overlay_channel(s, d)
      [] func = "Darken" -> darken_channel(s, d)
      [] func = "Lighten" -> lighten_channel(s, d)

\* the body the five non-Normal blend functions share
blend_premul(func, src, dst) ==
    IF Lt001(src.a) THEN source_clear_returns(src, dst)
    ELSE IF Lt001(dst.a) THEN src
    ELSE LET src_r == Div(src.r, src.a)
             src_g == Div(src.g, src.a)
             src_b == Div(src.b, src.a)
             dst_r == Div(dst.r, dst.a)
             dst_g == Div(dst.g, dst.a)
             dst_b == Div(dst.b, dst.a)
             blend_r == blend_channel(func, src_r, dst_r)
             blend_g == blend_channel(func, src_g, dst_g)
             blend_b == blend_channel(func, src_b, dst_b)
             out_a == src.a + Mul(dst.a, ONE - src.a)
         IN IF Lt001(out_a) THEN transparent
            ELSE LET result_r == dst_r + Mul(blend_r - dst_r, src.a)
                     result_g == dst_g + Mul(blend_g - dst_g, src.a)
                     result_b == dst_b + Mul(blend_b - dst_b, src.a)
                 IN Pixel_new(Mul(result_r, out_a), Mul(result_g, out_a),
                              Mul(result_b, out_a), out_a)

blend_multiply_premul(src, dst) == blend_premul("Multiply", src, dst)
blend_screen_premul(src, dst) == blend_premul("Screen", src, dst)
blend_overlay_premul(src, dst) == blend_premul("Overlay", src, dst)
blend_darken_premul(src, dst) == blend_premul("Darken", src, dst)
blend_lighten_premul(src, dst) == blend_premul("Lighten", src, dst)

\* BlendFunc and BlendFunc::apply
BlendFunc == { "Normal", "Multiply", "Screen", "Overlay", "Darken", "Lighten" }

apply(func, src, dst) ==
    CASE func = "Normal" -> blend_normal_premul(src, dst)
      [] func = "Multiply" -> blend_multiply_premul(src, dst)
      [] func = "Screen" -> blend_screen_premul(src, dst)
      [] func = "Overlay" -> blend_overlay_premul(src, dst)
      [] func = "Darken" -> blend_darken_premul(src, dst)
      [] func = "Lighten" -> blend_lighten_premul(src, dst)

----------------------------------------------------------------------------
(* State *)

VARIABLES
    \* StrokeBuffer fields
    width, height, data, dirty_rect, active,
    \* the caller's target raster (layer_data of end_stroke): straight 8-bit RGBA
    layer_data,
    \* the last StrokeBuffer call: its name, arguments, return value, the
    \* state it started from, and the number of calls made so far
    h_op, h_arg, h_ret, h_pre, nops,
    \* the last call other than stamp_dab (new, resize, begin_stroke, end_stroke)
    h_life,
    \* since the last begin_stroke (or new): stamp_dab calls since the last
    \* clear, end_stroke calls, end_stroke calls that changed the target
    nstamps, nends, nmerged

bufVars == << width, height, data, dirty_rect, active, layer_data,
              h_op, h_arg, h_ret, h_pre, nops, h_life, nstamps, nends, nmerged >>

VARIABLES
    \* BrushStamper fields
    config, accumulated_distance, last_stamp_point, point_history, is_stroke_start,
    \* the last BrushStamper call, and the Vec<Dab> it returned
    s_op, dabs,
    \* since the last reset (new, begin_stroke, finish_stroke): the samples
    \* given to process_point and all the dabs it returned, in order
    samples, stroke_dabs,
    \* of the last process_point call: the accumulated distance it started
    \* with, the path length it walked and the smallest threshold it used
    acc_in, path_len, min_threshold

stamperVars == << config, accumulated_distance, last_stamp_point, point_history,
                  is_stroke_start, s_op, dabs, samples, stroke_dabs,
                  acc_in, path_len, min_threshold >>

VARIABLES
    \* the last call of a function that belongs to no object of the state (a
    \* Rect method, a blend function, a bounds-checked pixel access): its
    \* name, its arguments and what it returned
    fn_name, fn_args, fn_result

fnVars == << fn_name, fn_args, fn_result >>

\* no such call made
FnIdle == fn_name = "none" /\ fn_args = << >> /\ fn_result = << >>

VARIABLES
    \* the backend's shared Mutex<Vec<TabletEvent>>: its vector and the thread
    \* holding the lock ("none" when free)
    events, lock,
    \* where each thread stands: "idle", or the call it is inside
    pc,
    \* the caller's vector given to poll, what it held when the current or
    \* last poll began, the count poll has read, and poll's last return value
    poll_events, poll_pre, count, poll_ret,
    \* every event pushed so far, in the order the pushes took place
    sent

inputVars == << events, lock, pc, poll_events, poll_pre, count, poll_ret, sent >>

Threads == { "frontend", "wintab", "consumer" }

\* a new backend, nobody inside a call, and a caller whose vector is empty
InputIdle ==
    /\ events = << >>
    /\ lock = "none"
    /\ pc = [t \in Threads |-> "idle"]
    /\ poll_events = << >>
    /\ poll_pre = << >>
    /\ count = 0
    /\ poll_ret = 0
    /\ sent = << >>

vars == << bufVars, stamperVars, fnVars, inputVars >>

----------------------------------------------------------------------------
(* BrushStamper *)

\* Option<PathPoint> of last_stamp_point
None == << >>
Some(p) == << p >>

\* a length times a [0,1]-scaled ratio
Scale(len, ratio) == RoundDiv(len * ratio, ONE)

\* Position and pressure of a sample.  tilt_x and tilt_y, which the code
\* carries along the same way and turns into Dab.angle only, are left out.
RawInputPoint(x, y, pressure) == [x |-> x, y |-> y, pressure |-> pressure]

from_raw(p) == [x |-> p.x, y |-> p.y, pressure |-> p.pressure]

lerp(a, b, t) ==
    [x |-> a.x + Scale(b.x - a.x, t),
     y |-> a.y + Scale(b.y - a.y, t),
     pressure |-> a.pressure + Mul(b.pressure - a.pressure, t)]

\* (dx * dx + dy * dy).sqrt(); on a horizontal or vertical segment that is
\* |dx| or |dy|
distance_to(a, b) ==
    LET dx == b.x - a.x
        dy == b.y - a.y
    IN IF dy = 0 THEN (IF dx < 0 THEN -dx ELSE dx)
       ELSE IF dx = 0 THEN (IF dy < 0 THEN -dy ELSE dy)
       ELSE Sqrt(dx * dx + dy * dy)

StamperConfig(size, spacing, flow, pressure_size, pressure_alpha, min_size_ratio, min_alpha_ratio) ==
    [size |-> size, spacing |-> spacing, flow |-> flow, hardness |-> ONE,
     pressure_size |-> pressure_size, pressure_alpha |-> pressure_alpha,
     min_size_ratio |-> min_size_ratio, min_alpha_ratio |-> min_alpha_ratio]

\* calculate_size that forgets the floor min_size_ratio gives
calculate_size_without_min(cfg, pressure) ==
    IF cfg.pressure_size THEN Scale(cfg.size, pressure) ELSE cfg.size

\* calculate_size that scales by pressure whatever pressure_size says
calculate_size_ignores_flag(cfg, pressure) ==
    LET min == Scale(cfg.size, cfg.min_size_ratio)
        range == cfg.size - min
    IN min + Scale(range, pressure)

calculate_size(cfg, pressure) ==
    IF cfg.pressure_size
    THEN LET min == Scale(cfg.size, cfg.min_size_ratio)
             range == cfg.size - min
         IN min + Scale(range, pressure)
    ELSE cfg.size

\* calculate_alpha that scales by pressure whatever pressure_alpha says
calculate_alpha_ignores_flag(cfg, pressure) ==
    LET min == Mul(cfg.flow, cfg.min_alpha_ratio)
        range == cfg.flow - min
    IN min + Mul(range, pressure)

calculate_alpha(cfg, pressure) ==
    LET base_alpha == cfg.flow
    IN IF cfg.pressure_alpha
       THEN LET min == Mul(base_alpha, cfg.min_alpha_ratio)
                range == base_alpha - min
            IN min + Mul(range, pressure)
       ELSE base_alpha

create_dab(cfg, point) ==
    [x |-> point.x, y |-> point.y,
     size |-> calculate_size(cfg, point.pressure),
     alpha |-> calculate_alpha(cfg, point.pressure),
     pressure |-> point.pressure]

\* step = size * spacing * 0.5
resample_step(cfg) == RoundDiv(Scale(cfg.size, cfg.spacing), 2)

\* (distance / step).ceil() as usize; 0.0 / 0.0 is NaN, which `as usize`
\* turns into 0
resample_steps(distance, step) ==
    IF step = 0 THEN 0 ELSE Ceil(RoundDiv(distance * PX, step))

\* Vec::with_capacity(steps) that accepts any capacity
with_capacity_panics_never(distance, step) == FALSE

\* Vec::with_capacity(steps) panics with a capacity overflow: distance / 0.0
\* is +inf for distance > 0, which `as usize` turns into usize::MAX
with_capacity_panics(distance, step) == step = 0 /\ distance > 0

\* i as f32 / steps as f32
StepT(i, steps) == RoundDiv(i * ONE, steps)

linear_interpolate(cfg, hist) ==
    LET n == Len(hist) IN
    IF n < 2 THEN << >>
    ELSE LET p0 == hist[n - 1]
             p1 == hist[n]
             distance == distance_to(p0, p1)
             step == resample_step(cfg)
         IN IF distance < step THEN << p1 >>
            ELSE LET steps == resample_steps(distance, step)
                 IN [i \in 1..steps |-> lerp(p0, p1, StepT(i, steps))]

catmull_rom_point(p0, p1, p2, p3, t) ==
    LET t2 == Mul(t, t)
        t3 == Mul(t2, t)
        b0 == (-RoundDiv(t3, 2)) + t2 - RoundDiv(t, 2)
        b1 == RoundDiv(3 * t3, 2) - RoundDiv(5 * t2, 2) + ONE
        b2 == (-RoundDiv(3 * t3, 2)) + 2 * t2 + RoundDiv(t, 2)
        b3 == RoundDiv(t3, 2) - RoundDiv(t2, 2)
    IN [x |-> Scale(p0.x, b0) + Scale(p1.x, b1) + Scale(p2.x, b2) + Scale(p3.x, b3),
        y |-> Scale(p0.y, b0) + Scale(p1.y, b1) + Scale(p2.y, b2) + Scale(p3.y, b3),
        pressure |-> Clamp(Mul(b0, p0.pressure) + Mul(b1, p1.pressure)
                           + Mul(b2, p2.pressure) + Mul(b3, p3.pressure), 0, ONE)]

catmull_rom_interpolate(cfg, hist) ==
    LET n == Len(hist) IN
    IF n < 4 THEN linear_interpolate(cfg, hist)
    ELSE LET p0 == hist[n - 3]
             p1 == hist[n - 2]
             p2 == hist[n - 1]
             p3 == hist[n]
             distance == distance_to(p1, p2)
             step == resample_step(cfg)
         IN IF distance < step THEN << p2 >>
            ELSE LET steps == resample_steps(distance, step)
                 IN [i \in 1..steps |-> catmull_rom_point(p0, p1, p2, p3, StepT(i, steps))]

\* interpolate_path panics in the Vec::with_capacity of the interpolation
\* it chooses
interpolate_path_panics(cfg, hist) ==
    LET n == Len(hist) IN
    /\ n >= 2
    /\ with_capacity_panics(
           IF n < 4 THEN distance_to(hist[n - 1], hist[n])
           ELSE distance_to(hist[n - 2], hist[n - 1]),
           resample_step(cfg))

\* an interpolate_path that takes the newest segment whatever the history
interpolate_path_newest(cfg, hist) ==
    IF Len(hist) < 2 THEN hist ELSE linear_interpolate(cfg, hist)

interpolate_path(cfg, hist) ==
    LET n == Len(hist) IN
    IF n < 2 THEN hist
    ELSE IF n < 4 THEN linear_interpolate(cfg, hist)
    ELSE catmull_rom_interpolate(cfg, hist)

\* t = 1 - min(overshoot / distance, 1) for distance > 0.001, else 1
CrossingT(overshoot, distance) ==
    IF distance * 1000 > PX
    THEN ONE - (IF overshoot >= distance THEN ONE ELSE RoundDiv(overshoot * ONE, distance))
    ELSE ONE

RECURSIVE EmitWhile(_, _, _, _, _, _, _)
\* the `while accumulated_distance >= threshold` loop of process_point:
\* the accumulated distance, last stamp point and dabs it ends with
EmitWhile(cfg, acc, threshold, distance, last, path_point, st) ==
    IF acc >= threshold
    THEN LET overshoot == acc - threshold
             dab_point == lerp(last, path_point, CrossingT(overshoot, distance))
         IN EmitWhile(cfg, acc - threshold, threshold, distance, last, path_point,
                      [acc |-> acc - threshold, last |-> Some(dab_point),
                       dabs |-> Append(st.dabs, create_dab(cfg, dab_point))])
    ELSE [acc |-> acc, last |-> st.last, dabs |-> st.dabs]

\* a threshold that forgets the spacing factor
spacing_threshold_is_size(cfg, current_size) == Max(current_size, PX)

\* threshold = (current_size * spacing).max(1.0)
spacing_threshold(cfg, current_size) == Max(Scale(current_size, cfg.spacing), PX)

\* one pass of the `for path_point in path_points` loop of process_point
path_point_step(cfg, path_point, st) ==
    IF st.last = None
    THEN [st EXCEPT !.last = Some(path_point)]
    ELSE LET last == st.last[1]
             distance == distance_to(last, path_point)
             current_size == calculate_size(cfg, path_point.pressure)
             threshold == spacing_threshold(cfg, current_size)
             after == EmitWhile(cfg, st.acc + distance, threshold, distance,
                                last, path_point, st)
         IN [acc |-> after.acc, last |-> Some(path_point), dabs |-> after.dabs,
             len |-> st.len + distance, thr |-> Min(st.thr, threshold)]

RECURSIVE ForPathPoints(_, _, _, _, _)
\* the `for path_point in path_points` loop of process_point over the points
\* lo..hi of pts, in order: the first half of the range, then the second
\* (the test on first.acc has the first half evaluated before the second is
\* entered; accumulated_distance is never negative)
ForPathPoints(cfg, pts, lo, hi, st) ==
    IF lo > hi THEN st
    ELSE IF lo = hi THEN path_point_step(cfg, pts[lo], st)
    ELSE LET mid == (lo + hi) \div 2
             first == ForPathPoints(cfg, pts, lo, mid, st)
         IN IF first.acc < 0 THEN first
            ELSE ForPathPoints(cfg, pts, mid + 1, hi, first)

\* the history after the push of process_point
push_history(hist, path_point) ==
    LET pushed == Append(hist, path_point)
    IN IF Len(pushed) > 4 THEN Tail(pushed) ELSE pushed

Returned(op, result) ==
    /\ s_op' = op
    /\ dabs' = result

\* BrushStamper::new(cfg)
StamperNew(cfg) ==
    /\ config = cfg
    /\ accumulated_distance = 0
    /\ last_stamp_point = None
    /\ point_history = << >>
    /\ is_stroke_start = TRUE
    /\ s_op = "new"
    /\ dabs = << >>
    /\ samples = << >>
    /\ stroke_dabs = << >>
    /\ acc_in = 0
    /\ path_len = 0
    /\ min_threshold = I32_MAX

\* nothing walked by the last call
NoWalk ==
    /\ acc_in' = accumulated_distance
    /\ path_len' = 0
    /\ min_threshold' = I32_MAX

set_config(cfg) ==
    /\ config' = cfg
    /\ UNCHANGED << accumulated_distance, last_stamp_point, point_history,
                    is_stroke_start, samples, stroke_dabs >>
    /\ NoWalk
    /\ Returned("set_config", << >>)

\* a reset that leaves the stroke-start flag as it is
reset_stroke_keeps_flag ==
    /\ accumulated_distance' = 0
    /\ last_stamp_point' = None
    /\ point_history' = << >>
    /\ is_stroke_start' = is_stroke_start

\* the fields begin_stroke resets
reset_stroke ==
    /\ accumulated_distance' = 0
    /\ last_stamp_point' = None
    /\ point_history' = << >>
    /\ is_stroke_start' = TRUE

stamper_begin_stroke ==
    /\ reset_stroke
    /\ samples' = << >>
    /\ stroke_dabs' = << >>
    /\ UNCHANGED config
    /\ NoWalk
    /\ Returned("begin_stroke", << >>)

process_point(point) ==
    LET path_point == from_raw(point)
        hist == push_history(point_history, path_point)
    IN /\ point_history' = hist
       /\ samples' = Append(samples, point)
       /\ UNCHANGED config
       /\ IF is_stroke_start
          THEN /\ is_stroke_start' = FALSE
               /\ last_stamp_point' = Some(path_point)
               /\ UNCHANGED accumulated_distance
               /\ NoWalk
               /\ stroke_dabs' = stroke_dabs \o << create_dab(config, path_point) >>
               /\ Returned("process_point", << create_dab(config, path_point) >>)
          ELSE IF Len(hist) < 2
          THEN /\ UNCHANGED << is_stroke_start, last_stamp_point, accumulated_distance,
                               stroke_dabs >>
               /\ NoWalk
               /\ Returned("process_point", << >>)
          ELSE IF interpolate_path_panics(config, hist)
          THEN \* the call unwinds out of interpolate_path and returns nothing
               /\ UNCHANGED << is_stroke_start, last_stamp_point, accumulated_distance,
                               stroke_dabs >>
               /\ NoWalk
               /\ Returned("panic", << >>)
          ELSE LET path_points == interpolate_path(config, hist)
                   after == ForPathPoints(config, path_points, 1, Len(path_points),
                                [acc |-> accumulated_distance,
                                 last |-> last_stamp_point, dabs |-> << >>,
                                 len |-> 0, thr |-> I32_MAX])
               IN /\ accumulated_distance' = after.acc
                  /\ last_stamp_point' = after.last
                  /\ UNCHANGED is_stroke_start
                  /\ acc_in' = accumulated_distance
                  /\ path_len' = after.len
                  /\ min_threshold' = after.thr
                  /\ stroke_dabs' = stroke_dabs \o after.dabs
                  /\ Returned("process_point", after.dabs)

\* a finish_stroke that resets nothing
finish_stroke_resets_nothing ==
    UNCHANGED << accumulated_distance, last_stamp_point, point_history, is_stroke_start >>

\* self.begin_stroke() inside finish_stroke
finish_stroke_resets == reset_stroke

finish_stroke ==
    /\ finish_stroke_resets
    /\ samples' = << >>
    /\ stroke_dabs' = << >>
    /\ UNCHANGED config
    /\ NoWalk
    /\ Returned("finish_stroke", << >>)

----------------------------------------------------------------------------
(* BrushStamper configurations *)

\* size 8 px, spacing 0.25 (2 px between dabs), pressure drives size and alpha
CfgPressure == StamperConfig(8 * PX, ONE \div 4, ONE, TRUE, TRUE, 0, 0)
\* the same brush with pressure off, flow 0.5
CfgPlain == StamperConfig(8 * PX, ONE \div 4, ONE \div 2, FALSE, FALSE, 0, 0)
\* size 1 px, spacing 0.1: size * spacing is below one pixel
CfgFine == StamperConfig(PX, ONE \div 10, ONE, FALSE, FALSE, 0, 0)
\* size 4 px, spacing 0.5, pressure with floors of one half
CfgFloor == StamperConfig(4 * PX, ONE \div 2, ONE, TRUE, TRUE, ONE \div 2, ONE \div 2)

\* degenerate brushes: size 0, and spacing 0 (the resampling step is 0)
CfgNoSize == StamperConfig(0, ONE \div 4, ONE, FALSE, FALSE, 0, 0)
CfgNoSpacing == StamperConfig(8 * PX, 0, ONE, TRUE, TRUE, 0, 0)

Configs == { CfgPressure, CfgPlain, CfgFine, CfgFloor, CfgNoSize, CfgNoSpacing }

\* the stamper while only the StrokeBuffer runs
StamperIdle == StamperNew(CfgPressure)

----------------------------------------------------------------------------
(* Bounds and inputs of the StrokeBuffer specification *)

\* calls per behaviour
MaxOps == 5
\* stamp_dab calls between two clears
MaxStamps == 2

\* dimensions given to new and resize
W0 == 3
H0 == 2
Dims == { <<3, 2>>, <<2, 2>> }

\* opacity ceilings given to end_stroke: 0, 0.2, 0.5, 1.0
Opacities == { 0, ONE \div 5, ONE \div 2, ONE }

Dab(cx, cy, radius, color, alpha, hardness) ==
    [cx |-> cx, cy |-> cy, radius |-> radius, color |-> color,
     alpha |-> alpha, hardness |-> hardness]

\* stamp_dab arguments: a hard half-opaque dab, a soft opaque one reaching
\* every pixel, a faint one centred left of the raster
DabInputs ==
    { Dab((3 * PX) \div 2, PX, PX, <<ONE, 0, 0>>, ONE \div 2, ONE),
      Dab(PX, PX, 2 * PX, <<ONE \div 2, ONE \div 4, ONE>>, ONE, ONE \div 2),
      Dab(-(PX \div 2), PX \div 2, PX, <<ONE, ONE, ONE>>, ONE \div 5, ONE) }

\* target rasters the caller may hold: transparent, opaque, half-transparent
LayerFill(r, g, b, a) ==
    [k \in 1..(W0 * H0 * 4) |->
        CASE (k - 1) % 4 = 0 -> r
          [] (k - 1) % 4 = 1 -> g
          [] (k - 1) % 4 = 2 -> b
          [] OTHER -> a]

LayerInputs ==
    { LayerFill(0, 0, 0, 0), LayerFill(10, 200, 30, 255), LayerFill(0, 90, 255, 128) }

----------------------------------------------------------------------------
(* StrokeBuffer *)

ClearData(w, h) == [i \in 1..(w * h) |-> transparent]

CurState == [op |-> h_op, active |-> active, layer |-> layer_data, data |-> data,
             dirty |-> dirty_rect, width |-> width, height |-> height]

Record(op, arg, ret) ==
    /\ h_op' = op
    /\ h_arg' = arg
    /\ h_ret' = ret
    /\ h_pre' = CurState
    /\ nops' = nops + 1

\* StrokeBuffer::new(W0, H0), and a target raster of the same size
BufInit ==
    /\ width = W0
    /\ height = H0
    /\ data = ClearData(W0, H0)
    /\ dirty_rect = Rect_empty
    /\ active = FALSE
    /\ layer_data \in LayerInputs
    /\ h_op = "new"
    /\ h_arg = << >>
    /\ h_ret = Rect_empty
    /\ h_pre = [op |-> "new", active |-> FALSE, layer |-> layer_data,
                data |-> ClearData(W0, H0), dirty |-> Rect_empty,
                width |-> W0, height |-> H0]
    /\ nops = 0
    /\ h_life = "new"
    /\ nstamps = 0
    /\ nends = 0
    /\ nmerged = 0

\* a resize that leaves the stroke running
resize_active_kept == active

\* the active flag that resize leaves behind
resize_active == FALSE

resize(w, h) ==
    /\ width' = w
    /\ height' = h
    /\ data' = ClearData(w, h)
    /\ dirty_rect' = Rect_empty
    /\ active' = resize_active
    /\ nstamps' = 0
    /\ h_life' = "resize"
    /\ UNCHANGED << layer_data, nends, nmerged >>
    /\ Record("resize", <<w, h>>, Rect_empty)

\* a clear that forgets the pixels
clear_dirty_only ==
    /\ data' = data
    /\ dirty_rect' = Rect_empty

\* clear(): every pixel transparent, dirty rect empty
clear ==
    /\ data' = ClearData(width, height)
    /\ dirty_rect' = Rect_empty

begin_stroke ==
    /\ clear
    /\ active' = TRUE
    /\ nstamps' = 0
    /\ nends' = 0
    /\ nmerged' = 0
    /\ h_life' = "begin_stroke"
    /\ UNCHANGED << width, height, layer_data >>
    /\ Record("begin_stroke", << >>, Rect_empty)

\* blend_pixel's effect on the pixel stored at idx (0-based)
blend_pixel(buf, idx, src) == blend_normal_premul(src, buf[idx + 1])

\* get_pixel(x, y) on a w-by-h pixel array
get_pixel(buf, w, h, x, y) ==
    IF x >= w \/ y >= h THEN transparent
    ELSE LET idx == y * w + x
         IN IF idx < Len(buf) THEN buf[idx + 1] ELSE transparent

\* a write that goes by the index alone
set_pixel_unchecked(buf, w, h, x, y, pixel) ==
    LET idx == y * w + x
    IN IF idx < Len(buf) THEN [buf EXCEPT ![idx + 1] = pixel] ELSE buf

\* the pixel array after set_pixel(x, y, pixel)
set_pixel(buf, w, h, x, y, pixel) ==
    IF x >= w \/ y >= h THEN buf
    ELSE LET idx == y * w + x
         IN IF idx < Len(buf) THEN [buf EXCEPT ![idx + 1] = pixel] ELSE buf

\* the pixel array after blend_pixel(x, y, src)
blend_pixel_data(buf, w, h, x, y, src) ==
    IF x >= w \/ y >= h THEN buf
    ELSE LET idx == y * w + x
         IN IF idx < Len(buf)
            THEN [buf EXCEPT ![idx + 1] = blend_pixel(buf, idx, src)]
            ELSE buf

\* alpha that stamp_dab deposits at distance dist from the centre
dab_alpha(dist, r, alpha, hardness) ==
    LET inner_radius == RoundDiv(r * hardness, ONE)
        fade_width == r - inner_radius
    IN IF dist <= inner_radius THEN alpha
       ELSE IF fade_width * 1000 > PX
            THEN Mul(alpha, ONE - RoundDiv((dist - inner_radius) * ONE, fade_width))
            ELSE alpha

\* a source pixel that keeps the straight colour
premultiply_straight(c, da) == c

\* a colour channel of the dab's premultiplied source pixel: color[i] * dab_alpha
premultiply(c, da) == Mul(c, da)

\* the pixel array after stamp_dab(d)
stamp_data(buf, w, h, d) ==
    LET r == Max(d.radius, PX \div 2)
        left == Floor(d.cx - r)
        top == Floor(d.cy - r)
        right == Ceil(d.cx + r)
        bottom == Ceil(d.cy + r)
    IN [i \in 1..(w * h) |->
          LET px == (i - 1) % w
              py == (i - 1) \div w
              dx == px * PX + (PX \div 2) - d.cx
              dy == py * PX + (PX \div 2) - d.cy
              dist == Sqrt(dx * dx + dy * dy)
              da == dab_alpha(dist, r, d.alpha, d.hardness)
          IN IF /\ py >= top /\ py <= bottom /\ px >= left /\ px <= right
                /\ dist <= r
                /\ ~Lt001(da)
             THEN blend_pixel(buf, i - 1,
                      Pixel_new(premultiply(d.color[1], da), premultiply(d.color[2], da),
                                premultiply(d.color[3], da), da))
             ELSE buf[i]]

\* a dirty rect that tracks the centre pixel only
dab_reach_centre_only(radius) == 0

\* the radius stamp_dab hands to Rect::expand: r.ceil() as i32, r = radius.max(0.5)
dab_reach(radius) == Ceil(Max(radius, PX \div 2))

stamp_dab(d) ==
    /\ dirty_rect' = expand(dirty_rect, Trunc(d.cx), Trunc(d.cy), dab_reach(d.radius))
    /\ data' = stamp_data(data, width, height, d)
    /\ nstamps' = nstamps + 1
    /\ UNCHANGED << width, height, active, layer_data, h_life, nends, nmerged >>
    /\ Record("stamp_dab", d, Rect_empty)

\* calls that touch pixels only: no field but data may change
PixelCall(op, arg, ret) ==
    /\ UNCHANGED << width, height, dirty_rect, active, layer_data,
                    h_life, nstamps, nends, nmerged >>
    /\ Record(op, arg, ret)

GetPixel(x, y) ==
    /\ UNCHANGED data
    /\ PixelCall("get_pixel", << x, y >>, get_pixel(data, width, height, x, y))

SetPixel(x, y, pixel) ==
    /\ data' = set_pixel(data, width, height, x, y, pixel)
    /\ PixelCall("set_pixel", << x, y, pixel >>, Rect_empty)

BlendPixel(x, y, src) ==
    /\ data' = blend_pixel_data(data, width, height, x, y, src)
    /\ PixelCall("blend_pixel", << x, y, src >>, Rect_empty)

\* the opacity ceiling of end_stroke: stroke_pixel.a.min(opacity)
apply_ceiling_none(a, opacity) == a

apply_ceiling(a, opacity) == Min(a, opacity)

\* what end_stroke writes for the pixel stored at idx (0-based): <<r, g, b, a>>
end_pixel(idx, opacity) ==
    LET stroke_pixel == data[idx + 1]
        clamped_alpha == apply_ceiling(stroke_pixel.a, opacity)
        clamped_pixel == with_alpha(stroke_pixel, clamped_alpha)
        layer_idx == idx * 4
        layer_pixel == from_rgba_u8(layer_data[layer_idx + 1], layer_data[layer_idx + 2],
                                    layer_data[layer_idx + 3], layer_data[layer_idx + 4])
    IN to_rgba_u8(blend_normal_premul(clamped_pixel, layer_pixel))

\* the target after end_stroke composited the pixels of rect
end_layer(rect, opacity) ==
    [k \in 1..Len(layer_data) |->
        LET idx == (k - 1) \div 4
            x == idx % width
            y == idx \div width
        IN IF /\ y >= rect.top /\ y < rect.bottom /\ x >= rect.left /\ x < rect.right
              /\ ~Lt001(data[idx + 1].a)
              /\ idx * 4 + 3 < Len(layer_data)
           THEN end_pixel(idx, opacity)[((k - 1) % 4) + 1]
           ELSE layer_data[k]]

\* end_stroke's early return: no stroke is active
end_stroke_returns_early_never == FALSE

end_stroke_returns_early == ~active

\* the active flag that end_stroke leaves behind
end_stroke_active_kept == active

end_stroke_active == FALSE

end_stroke(opacity) ==
    /\ IF end_stroke_returns_early
       THEN /\ UNCHANGED << active, layer_data >>
            /\ Record("end_stroke", opacity, Rect_empty)
       ELSE LET rect == clamp_to(dirty_rect, width, height)
            IN /\ active' = end_stroke_active
               /\ IF is_empty(rect)
                  THEN /\ UNCHANGED layer_data
                       /\ Record("end_stroke", opacity, Rect_empty)
                  ELSE /\ layer_data' = end_layer(rect, opacity)
                       /\ Record("end_stroke", opacity, rect)
    /\ h_life' = "end_stroke"
    /\ nends' = nends + 1
    /\ nmerged' = nmerged + (IF layer_data' # layer_data THEN 1 ELSE 0)
    /\ UNCHANGED << width, height, data, dirty_rect, nstamps >>

\* the calls a session makes on its StrokeBuffer, in any order
BufNext ==
    \/ \E d \in Dims : nops < MaxOps /\ resize(d[1], d[2]) /\ UNCHANGED << stamperVars, fnVars, inputVars >>
    \/ nops < MaxOps /\ begin_stroke /\ UNCHANGED << stamperVars, fnVars, inputVars >>
    \/ \E d \in DabInputs :
          nops < MaxOps /\ nstamps < MaxStamps /\ stamp_dab(d) /\ UNCHANGED << stamperVars, fnVars, inputVars >>
    \/ \E c \in Opacities : nops < MaxOps /\ end_stroke(c) /\ UNCHANGED << stamperVars, fnVars, inputVars >>

\* a new StrokeBuffer beside an untouched stamper
BufferInit == BufInit /\ StamperIdle /\ FnIdle /\ InputIdle

SpecBuffer == BufferInit /\ [][BufNext]_vars

----------------------------------------------------------------------------
(* Bounds and inputs of the BrushStamper specification *)

\* samples per stroke
MaxSamples == 4

\* size * spacing, the nominal distance between two dabs
Spacing(cfg) == Scale(cfg.size, cfg.spacing)

\* the unit the samples are laid out in: size * spacing, or one pixel for a
\* brush whose size * spacing is 0
SampleUnit(cfg) == IF Spacing(cfg) = 0 THEN PX ELSE Spacing(cfg)

\* samples laid out in multiples of the unit: on the x axis at 0, 1/2
\* and 10 units at full pressure, at 1/2 unit at quarter pressure,
\* and one on the y axis at 10 units and pressure 0
SampleInputs(cfg) ==
    LET u == SampleUnit(cfg)
    IN { RawInputPoint(0, 0, ONE), RawInputPoint(u \div 2, 0, ONE),
         RawInputPoint(10 * u, 0, ONE),
         RawInputPoint(u \div 2, 0, ONE \div 4),
         RawInputPoint(0, 10 * u, 0) }

\* the StrokeBuffer while only the stamper runs: StrokeBuffer::new(W0, H0)
\* and a transparent target
BufIdle == BufInit /\ layer_data = LayerFill(0, 0, 0, 0)

StamperInit == BufIdle /\ FnIdle /\ InputIdle /\ \E cfg \in Configs : StamperNew(cfg)

\* a process_point call has panicked: the session uses the stamper no more
unwound == s_op = "panic"

\* the calls an input session makes on its stamper; the configuration is
\* replaced between strokes only
StamperNext ==
    \/ \E cfg \in Configs :
          /\ ~unwound /\ is_stroke_start /\ s_op # "set_config"
          /\ set_config(cfg) /\ UNCHANGED << bufVars, fnVars, inputVars >>
    \/ ~unwound /\ stamper_begin_stroke /\ UNCHANGED << bufVars, fnVars, inputVars >>
    \/ \E p \in SampleInputs(config) :
          /\ ~unwound /\ Len(samples) < MaxSamples
          /\ process_point(p) /\ UNCHANGED << bufVars, fnVars, inputVars >>
    \/ ~unwound /\ finish_stroke /\ UNCHANGED << bufVars, fnVars, inputVars >>

SpecStamper == StamperInit /\ [][StamperNext]_vars

----------------------------------------------------------------------------
(* Flow accumulation: one stroke stamping the same dab over and over *)

\* stamps of the repeated dab
MaxFlowStamps == 16

\* per-dab alpha of the repeated dab: 0.0005, 0.001, 0.1, 0.2, 0.5, 0.9, 0.99
FlowAlphas ==
    { ONE \div 2000, (ONE \div 1000) + 1, ONE \div 10, ONE \div 5, ONE \div 2,
      (9 * ONE) \div 10, (99 * ONE) \div 100 }

\* a hard dab centred on pixel (0, 0), covering it with its full alpha
FlowDabs ==
    { Dab(PX \div 2, PX \div 2, PX \div 2, <<ONE, ONE \div 2, 0>>, f, ONE) : f \in FlowAlphas }

FlowNext ==
    \/ ~active /\ begin_stroke /\ UNCHANGED << stamperVars, fnVars, inputVars >>
    \/ \E d \in FlowDabs :
          /\ active
          /\ nstamps < MaxFlowStamps
          /\ nstamps = 0 \/ d = h_arg
          /\ stamp_dab(d)
          /\ UNCHANGED << stamperVars, fnVars, inputVars >>

SpecFlow == BufferInit /\ [][FlowNext]_vars

----------------------------------------------------------------------------
(* Rect methods on their own *)

\* the objects of the state while only such functions are called
Idle == BufIdle /\ StamperIdle

\* rects given to union and expand: the sentinel Rect::empty(),
\* Rect::default(), what clamp_to(3, 2) leaves of (5, 5, 10, 10), and three
\* rects with pixels in them
RectInputs ==
    { Rect_empty, Rect_new(0, 0, 0, 0), clamp_to(Rect_new(5, 5, 10, 10), 3, 2),
      Rect_new(1, 1, 3, 2), Rect_new(0, 0, 2, 2), Rect_new(-1, 0, 1, 4) }

\* x, y, radius given to expand
ExpandInputs == { << 0, 0, 0 >>, << 2, 1, 1 >>, << -3, 4, 2 >> }

\* a.union(b) then .union(c), beside the same unions taken in other orders
\* and the unions of a with Rect::empty()
RectUnion(a, b, c) ==
    /\ fn_name' = "union"
    /\ fn_args' = << a, b, c >>
    /\ fn_result' = [ab |-> union(a, b), ba |-> union(b, a),
                     ab_c |-> union(union(a, b), c), a_bc |-> union(a, union(b, c)),
                     a_empty |-> union(a, Rect_empty), empty_a |-> union(Rect_empty, a)]

\* a.expand(p) then .expand(q), beside the other order and expand(p) of
\* Rect::empty()
RectExpand(a, p, q) ==
    /\ fn_name' = "expand"
    /\ fn_args' = << a, p, q >>
    /\ fn_result' = [pq |-> expand(expand(a, p[1], p[2], p[3]), q[1], q[2], q[3]),
                     qp |-> expand(expand(a, q[1], q[2], q[3]), p[1], p[2], p[3]),
                     on_empty |-> expand(Rect_empty, p[1], p[2], p[3])]

RectInit == Idle /\ FnIdle /\ InputIdle

RectNext ==
    \/ \E a, b, c \in RectInputs :
          RectUnion(a, b, c) /\ UNCHANGED << bufVars, stamperVars, inputVars >>
    \/ \E a \in RectInputs : \E p, q \in ExpandInputs :
          RectExpand(a, p, q) /\ UNCHANGED << bufVars, stamperVars, inputVars >>

SpecRect == RectInit /\ [][RectNext]_vars

----------------------------------------------------------------------------
(* Blend functions on their own *)

\* premultiplied pixels given to the blend functions: transparent, opaque
\* white, black and red, two translucent colours, and one whose alpha of
\* 0.0005 is below the 0.001 cut
PixelInputs ==
    { transparent,
      Pixel_new(ONE, ONE, ONE, ONE), Pixel_new(0, 0, 0, ONE),
      from_rgba_u8(255, 0, 0, 255),
      from_rgba_u8(10, 200, 30, 255),
      from_rgba_u8(10, 200, 30, 128), from_rgba_u8(0, 90, 255, 64),
      Pixel_new(ONE \div 4000, 0, ONE \div 2000, ONE \div 2000) }

\* func.apply(src, dst)
Blend(func, src, dst) ==
    /\ fn_name' = func
    /\ fn_args' = << src, dst >>
    /\ fn_result' = apply(func, src, dst)

BlendInit == Idle /\ FnIdle /\ InputIdle

BlendNext ==
    \/ \E src, dst \in PixelInputs :
          Blend("Normal", src, dst) /\ UNCHANGED << bufVars, stamperVars, inputVars >>
    \/ \E src, dst \in PixelInputs :
          Blend("Multiply", src, dst) /\ UNCHANGED << bufVars, stamperVars, inputVars >>
    \/ \E src, dst \in PixelInputs :
          Blend("Screen", src, dst) /\ UNCHANGED << bufVars, stamperVars, inputVars >>
    \/ \E src, dst \in PixelInputs :
          Blend("Overlay", src, dst) /\ UNCHANGED << bufVars, stamperVars, inputVars >>
    \/ \E src, dst \in PixelInputs :
          Blend("Darken", src, dst) /\ UNCHANGED << bufVars, stamperVars, inputVars >>
    \/ \E src, dst \in PixelInputs :
          Blend("Lighten", src, dst) /\ UNCHANGED << bufVars, stamperVars, inputVars >>

SpecBlend == BlendInit /\ [][BlendNext]_vars

----------------------------------------------------------------------------
(* Pixel access and dirty tracking of one StrokeBuffer *)

\* calls per behaviour
MaxPixelOps == 3

\* coordinates given to get_pixel, set_pixel and blend_pixel on the W0-by-H0
\* raster: two inside, then x = width, y = height, and both
Coords == { << 0, 0 >>, << W0 - 1, H0 - 1 >>, << W0, 0 >>, << 1, H0 >>, << W0, H0 >> }

\* pixels given to set_pixel and blend_pixel
PixelArgs == { from_rgba_u8(255, 0, 0, 255), from_rgba_u8(0, 90, 255, 128) }

\* stamp_dab arguments: a disc inside the raster, one over its left edge,
\* one wholly to its right, one wholly above it, and one too faint to
\* deposit anything
EdgeDabs ==
    { Dab((3 * PX) \div 2, PX, PX, << ONE, 0, 0 >>, ONE \div 2, ONE),
      Dab(-(PX \div 2), PX \div 2, PX, << ONE, ONE, ONE >>, ONE \div 5, ONE),
      Dab((11 * PX) \div 2, PX \div 2, PX, << ONE, ONE, ONE >>, ONE, ONE),
      Dab(PX, -(3 * PX), PX, << 0, ONE, 0 >>, ONE, ONE),
      Dab((3 * PX) \div 2, PX, PX, << ONE, 0, 0 >>, ONE \div 2000, ONE) }

PixelsNext ==
    \/ nops < MaxPixelOps /\ begin_stroke /\ UNCHANGED << stamperVars, fnVars, inputVars >>
    \/ \E d \in EdgeDabs :
          nops < MaxPixelOps /\ stamp_dab(d) /\ UNCHANGED << stamperVars, fnVars, inputVars >>
    \/ nops < MaxPixelOps /\ end_stroke(ONE \div 2) /\ UNCHANGED << stamperVars, fnVars, inputVars >>
    \/ \E c \in Coords :
          nops < MaxPixelOps /\ GetPixel(c[1], c[2]) /\ UNCHANGED << stamperVars, fnVars, inputVars >>
    \/ \E c \in Coords, p \in PixelArgs :
          nops < MaxPixelOps /\ SetPixel(c[1], c[2], p) /\ UNCHANGED << stamperVars, fnVars, inputVars >>
    \/ \E c \in Coords, p \in PixelArgs :
          nops < MaxPixelOps /\ BlendPixel(c[1], c[2], p) /\ UNCHANGED << stamperVars, fnVars, inputVars >>

SpecPixels == BufferInit /\ [][PixelsNext]_vars

----------------------------------------------------------------------------
(* Successive strokes of one BrushStamper *)

\* samples per stroke
MaxStrokeSamples == 4

\* samples of a stroke: at the origin, 10 units along x, and half a unit
\* along x at quarter pressure
StrokeSamples(cfg) ==
    LET u == SampleUnit(cfg)
    IN { RawInputPoint(0, 0, ONE), RawInputPoint(10 * u, 0, ONE),
         RawInputPoint(u \div 2, 0, ONE \div 4) }

\* finish_stroke, noting how many samples the stroke it ends had and what
\* it returned
FinishStroke ==
    /\ finish_stroke
    /\ fn_name' = "finish_stroke"
    /\ fn_args' = << Len(samples) >>
    /\ fn_result' = dabs'

StrokesInit == StamperInit

StrokesNext ==
    \/ ~unwound /\ stamper_begin_stroke /\ UNCHANGED << bufVars, fnVars, inputVars >>
    \/ \E p \in StrokeSamples(config) :
          /\ ~unwound /\ Len(samples) < MaxStrokeSamples
          /\ process_point(p) /\ UNCHANGED << bufVars, fnVars, inputVars >>
    \/ ~unwound /\ FinishStroke /\ UNCHANGED << bufVars, inputVars >>

SpecStrokes == StrokesInit /\ [][StrokesNext]_vars

----------------------------------------------------------------------------
(* Input points: pressure curve and tilt clamping *)

\* An f32 that may be NaN or infinite: finite values count steps (of 1/ONE
\* for a pressure, of 1/DEG degree for a tilt).
Fin(v) == [nan |-> FALSE, inf |-> 0, v |-> v]
NaN == [nan |-> TRUE, inf |-> 0, v |-> 0]
Inf(sign) == [nan |-> FALSE, inf |-> sign, v |-> 0]

\* steps per degree of tilt
DEG == 10

\* f32::clamp(lo, hi): NaN stays NaN
f32_clamp(x, lo, hi) ==
    IF x.nan THEN x
    ELSE IF x.inf < 0 THEN Fin(lo)
    ELSE IF x.inf > 0 THEN Fin(hi)
    ELSE Fin(Clamp(x.v, lo, hi))

\* a as f32 / b for integers a >= 0, b >= 0, in steps of 1/ONE
f32_div(a, b) ==
    IF b = 0 THEN (IF a = 0 THEN NaN ELSE Inf(1))
    ELSE Fin(RoundDiv(a * ONE, b))

PressureCurve == { "Linear", "Soft", "Hard", "SCurve" }

\* PressureCurve::apply
curve_apply(curve, pressure) ==
    LET p == f32_clamp(pressure, 0, ONE)
    IN IF p.nan THEN NaN
       ELSE CASE curve = "Linear" -> p
              [] curve = "Soft" -> Fin(Sqrt(p.v * ONE))
              [] curve = "Hard" -> Fin(Mul(p.v, p.v))
              [] curve = "SCurve" -> Fin(Mul(Mul(p.v, p.v), 3 * ONE - 2 * p.v))

\* the fields of RawInputPoint that the backends compute
InputPoint(pressure, tilt_x, tilt_y) ==
    [pressure |-> pressure, tilt_x |-> tilt_x, tilt_y |-> tilt_y]

\* the point that push_input wraps in TabletEvent::Input
push_input_point(curve, pressure, tilt_x, tilt_y) ==
    InputPoint(curve_apply(curve, pressure),
               f32_clamp(tilt_x, -(90 * DEG), 90 * DEG),
               f32_clamp(tilt_y, -(90 * DEG), 90 * DEG))

\* the point that the WinTab polling thread builds from a packet;
\* orAzimuth and orAltitude come in tenths of a degree
wintab_point(curve, pressure_max, pkNormalPressure, orAzimuth, orAltitude) ==
    InputPoint(curve_apply(curve, f32_div(pkNormalPressure, pressure_max)),
               f32_clamp(Fin((orAzimuth * DEG) \div 10), -(90 * DEG), 90 * DEG),
               f32_clamp(Fin((orAltitude * DEG) \div 10), -(90 * DEG), 90 * DEG))

\* raw pressures: below 0, 0, 0.25, 0.5, just below 1, 1, above 1, the
\* infinities and NaN
RawPressures ==
    { Fin(-(ONE \div 2)), Fin(0), Fin(ONE \div 4), Fin(ONE \div 2), Fin(ONE - 1),
      Fin(ONE), Fin((3 * ONE) \div 2), Inf(1), Inf(-1), NaN }

\* raw tilts: -120, -45.5, 0, 90 and 135 degrees, and NaN
RawTilts ==
    { Fin(-(120 * DEG)), Fin(-(91 * DEG) \div 2), Fin(0), Fin(90 * DEG), Fin(135 * DEG), NaN }

\* WinTab pressure ranges (axMax of the device) and packet pressures
PressureMaxima == { 1024, 0 }
PacketPressures == { 0, 256, 1024, 2000 }
\* packet orientations, in tenths of a degree
PacketAngles == { -900, 0, 455, 3599 }

CurveApply(curve, pressure) ==
    /\ fn_name' = "apply"
    /\ fn_args' = << curve, pressure >>
    /\ fn_result' = curve_apply(curve, pressure)

PushInputPoint(curve, pressure, tilt_x, tilt_y) ==
    /\ fn_name' = "push_input"
    /\ fn_args' = << curve, pressure, tilt_x, tilt_y >>
    /\ fn_result' = push_input_point(curve, pressure, tilt_x, tilt_y)

WinTabPoint(curve, pressure_max, pk, az, alt) ==
    /\ fn_name' = "wintab_packet"
    /\ fn_args' = << curve, pressure_max, pk, az, alt >>
    /\ fn_result' = wintab_point(curve, pressure_max, pk, az, alt)

PointsInit == Idle /\ FnIdle /\ InputIdle

PointsNext ==
    \/ \E c \in PressureCurve, pr \in RawPressures :
          CurveApply(c, pr) /\ UNCHANGED << bufVars, stamperVars, inputVars >>
    \/ \E c \in PressureCurve, pr \in RawPressures, tx, ty \in RawTilts :
          PushInputPoint(c, pr, tx, ty) /\ UNCHANGED << bufVars, stamperVars, inputVars >>
    \/ \E c \in PressureCurve, m \in PressureMaxima, pk \in PacketPressures :
          \E az, alt \in PacketAngles :
             WinTabPoint(c, m, pk, az, alt) /\ UNCHANGED << bufVars, stamperVars, inputVars >>

SpecPoints == PointsInit /\ [][PointsNext]_vars

----------------------------------------------------------------------------
(* Tablet event queue: producers pushing, one consumer polling *)

\* The PointerEvent backend's queue is filled by push_input and
\* push_proximity_* (the frontend's command thread), the WinTab backend's by
\* its polling thread's extend; both are drained by the same poll.  One
\* queue with both kinds of producer covers either backend.

\* pushes begun only while fewer events than this have been pushed
MaxEvents == 3

TabletEvent(kind, seq) == [kind |-> kind, seq |-> seq]

\* the tags that tell the events of one batch apart
Stamp(kinds) == [i \in 1..Len(kinds) |-> TabletEvent(kinds[i], Len(sent) + i)]

\* what the WinTab thread collects from one wt_packets_get
Batches == { << "Input" >>, << "ProximityEnter", "Input" >>, << "ProximityLeave", "Input" >> }

\* a lock that never blocks
can_lock_always(holder) == TRUE

\* Mutex::lock returns once no thread holds the mutex
can_lock(holder) == holder = "none"

\* thread t enters call op and takes the lock
Lock(t, op) ==
    /\ pc[t] = "idle"
    /\ can_lock(lock)
    /\ lock' = t
    /\ pc' = [pc EXCEPT ![t] = op]
    /\ UNCHANGED << events, poll_events, poll_pre, count, poll_ret, sent >>

\* thread t pushes the batch, drops the guard and returns
PushAndUnlock(t, op, kinds) ==
    /\ pc[t] = op
    /\ events' = events \o Stamp(kinds)
    /\ sent' = sent \o Stamp(kinds)
    /\ lock' = "none"
    /\ pc' = [pc EXCEPT ![t] = "idle"]
    /\ UNCHANGED << poll_events, poll_pre, count, poll_ret >>

push_input == PushAndUnlock("frontend", "push_input", << "Input" >>)
push_proximity_enter == PushAndUnlock("frontend", "push_proximity_enter", << "ProximityEnter" >>)
push_proximity_leave == PushAndUnlock("frontend", "push_proximity_leave", << "ProximityLeave" >>)

\* events_lock.extend(new_events) in the WinTab polling thread
extend(kinds) == PushAndUnlock("wintab", "extend", kinds)

\* poll, entered with the lock held: let count = events_lock.len()
poll_len ==
    /\ pc["consumer"] = "poll"
    /\ count' = Len(events)
    /\ poll_pre' = poll_events
    /\ pc' = [pc EXCEPT !["consumer"] = "poll_append"]
    /\ UNCHANGED << events, lock, poll_events, poll_ret, sent >>

\* events.append(&mut events_lock)
poll_append ==
    /\ pc["consumer"] = "poll_append"
    /\ poll_events' = poll_events \o events
    /\ events' = << >>
    /\ pc' = [pc EXCEPT !["consumer"] = "poll_return"]
    /\ UNCHANGED << lock, poll_pre, count, poll_ret, sent >>

\* poll returns count; the guard is dropped
poll_return ==
    /\ pc["consumer"] = "poll_return"
    /\ poll_ret' = count
    /\ lock' = "none"
    /\ pc' = [pc EXCEPT !["consumer"] = "idle"]
    /\ UNCHANGED << events, poll_events, poll_pre, count, sent >>

InputInit == Idle /\ FnIdle /\ InputIdle

InputNext ==
    \/ Len(sent) < MaxEvents /\ Lock("frontend", "push_input")
          /\ UNCHANGED << bufVars, stamperVars, fnVars >>
    \/ Len(sent) < MaxEvents /\ Lock("frontend", "push_proximity_enter")
          /\ UNCHANGED << bufVars, stamperVars, fnVars >>
    \/ Len(sent) < MaxEvents /\ Lock("frontend", "push_proximity_leave")
          /\ UNCHANGED << bufVars, stamperVars, fnVars >>
    \/ Len(sent) < MaxEvents /\ Lock("wintab", "extend")
          /\ UNCHANGED << bufVars, stamperVars, fnVars >>
    \/ Lock("consumer", "poll")
          /\ UNCHANGED << bufVars, stamperVars, fnVars >>
    \/ push_input /\ UNCHANGED << bufVars, stamperVars, fnVars >>
    \/ push_proximity_enter /\ UNCHANGED << bufVars, stamperVars, fnVars >>
    \/ push_proximity_leave /\ UNCHANGED << bufVars, stamperVars, fnVars >>
    \/ \E kinds \in Batches : extend(kinds) /\ UNCHANGED << bufVars, stamperVars, fnVars >>
    \/ poll_len /\ UNCHANGED << bufVars, stamperVars, fnVars >>
    \/ poll_append /\ UNCHANGED << bufVars, stamperVars, fnVars >>
    \/ poll_return /\ UNCHANGED << bufVars, stamperVars, fnVars >>

SpecInput == InputInit /\ [][InputNext]_vars

----------------------------------------------------------------------------
(* Properties of the StrokeBuffer *)

\* pixel indices (0-based) present in both the buffer and the target
Shared == { k \in 0..(width * height - 1) : 4 * k + 4 <= Len(layer_data) }

\* alpha byte of pixel k of a target raster
AlphaOf(layer, k) == layer[4 * k + 4]

InRect(k, rect) ==
    /\ k % width >= rect.left /\ k % width < rect.right
    /\ k \div width >= rect.top /\ k \div width < rect.bottom

\* C1: end_stroke(target, c) raises the alpha of no target pixel by more than
\* c, counted on the 8-bit values: (after - before) / 255 <= c.
C1_OpacityCeiling ==
    h_op = "end_stroke" =>
        \A k \in 0..((Len(layer_data) \div 4) - 1) :
            (AlphaOf(layer_data, k) - AlphaOf(h_pre.layer, k)) * ONE <= h_arg * U8

\* an end_stroke with a ceiling strictly between 0 and 1 that raised the alpha
\* of a non-transparent target pixel whose stroke alpha was above the ceiling
C1_Witness ==
    /\ h_op = "end_stroke"
    /\ h_arg > 0 /\ h_arg < ONE
    /\ \E k \in Shared :
          /\ h_pre.data[k + 1].a > h_arg
          /\ AlphaOf(h_pre.layer, k) > 0
          /\ AlphaOf(layer_data, k) > AlphaOf(h_pre.layer, k)

\* C3: end_stroke while no stroke is active returns an empty rect and leaves
\* the target, the buffer's pixels, its dirty rect, its dimensions and its
\* active flag as they were.
C3_InactiveEndIsNoop ==
    (h_op = "end_stroke" /\ ~h_pre.active) =>
        /\ h_ret = Rect_empty
        /\ layer_data = h_pre.layer
        /\ data = h_pre.data
        /\ dirty_rect = h_pre.dirty
        /\ active = h_pre.active
        /\ width = h_pre.width /\ height = h_pre.height

\* an end_stroke on an inactive buffer that holds ink inside its dirty rect
C3_Witness ==
    /\ h_op = "end_stroke"
    /\ ~h_pre.active
    /\ ~is_empty(clamp_to(dirty_rect, width, height))
    /\ \E k \in Shared : ~Lt001(data[k + 1].a) /\ InRect(k, dirty_rect)

\* C4: between two begin_stroke calls at most one end_stroke changes the
\* target; every further end_stroke returns an empty rect and leaves the
\* target as it was.
C4_AppliedOnce ==
    /\ nmerged <= 1
    /\ (h_op = "end_stroke" /\ nends >= 2) =>
           (h_ret = Rect_empty /\ layer_data = h_pre.layer)

\* a second end_stroke after one that merged, the buffer still holding ink
C4_Witness ==
    /\ h_op = "end_stroke"
    /\ nends >= 2
    /\ nmerged = 1
    /\ \E k \in Shared : ~Lt001(data[k + 1].a) /\ InRect(k, dirty_rect)

\* C5: after begin_stroke every buffer pixel is transparent, the dirty rect is
\* empty and the buffer is active; the buffer is active exactly when the last
\* call among new, resize, begin_stroke and end_stroke was begin_stroke.
C5_BeginStroke ==
    /\ h_op = "begin_stroke" =>
          /\ \A i \in 1..(width * height) : data[i] = transparent
          /\ dirty_rect = Rect_empty
          /\ active
    /\ active <=> (h_life = "begin_stroke")

\* a begin_stroke issued after an end_stroke that left ink in the buffer
C5_Witness ==
    /\ h_op = "begin_stroke"
    /\ h_pre.op = "end_stroke"
    /\ \E i \in 1..(width * height) : h_pre.data[i].a > 0

\* the target pixels an end_stroke on an active stroke composited although
\* their stroke alpha was above the ceiling
OverCeiling ==
    IF h_op = "end_stroke" /\ h_pre.active
    THEN { k \in Shared : InRect(k, h_ret) /\ h_pre.data[k + 1].a > h_arg }
    ELSE {}

\* C7 as stated: such a pixel ends with alpha <= c, one 8-bit step allowed,
\* whatever the target held.
C7_Original ==
    \A k \in OverCeiling : AlphaOf(layer_data, k) * ONE <= h_arg * U8 + ONE

\* C7 amended: such a pixel ends with alpha <= c + t * (1 - c), t being the
\* alpha the target pixel had; so with alpha <= c where the target was
\* transparent.
C7_CeilingOverTarget ==
    \A k \in OverCeiling :
        LET t == RoundDiv(AlphaOf(h_pre.layer, k) * ONE, U8)
        IN /\ AlphaOf(layer_data, k) * ONE <= U8 * (h_arg + Mul(t, ONE - h_arg))
           /\ t = 0 => AlphaOf(layer_data, k) * ONE <= h_arg * U8

\* a transparent target pixel merged under a ceiling below its stroke alpha
C7_Witness ==
    \E k \in OverCeiling :
        /\ AlphaOf(h_pre.layer, k) = 0
        /\ AlphaOf(layer_data, k) > 0
        /\ h_arg < ONE

----------------------------------------------------------------------------
(* Properties of flow accumulation, under SpecFlow *)

RECURSIVE Pow(_, _)
\* x^k of a [0,1]-scaled value
Pow(x, k) == IF k = 0 THEN ONE ELSE Mul(Pow(x, k - 1), x)

Abs(v) == IF v < 0 THEN -v ELSE v

\* alpha of pixel (0, 0) now and before the last call
FlowAlpha == data[1].a
FlowAlphaPre == h_pre.data[1].a

\* C6 as stated: every stamp of per-dab alpha f, 0 < f < 1, strictly raises
\* the pixel's alpha, which is above f from the second stamp on and at most 1.
C6_Original ==
    (h_op = "stamp_dab" /\ h_arg.alpha > 0 /\ h_arg.alpha < ONE) =>
        /\ FlowAlpha > FlowAlphaPre
        /\ nstamps >= 2 => FlowAlpha > h_arg.alpha
        /\ FlowAlpha <= ONE

\* C6 amended: for 0.001 <= f < 1 the alpha after k stamps is 1 - (1-f)^k up
\* to the rounding of k operations; no stamp lowers it, a stamp raises it
\* whenever the exact increment f * (1 - alpha) is at least one rounding step,
\* it is above f from the second stamp on and never above 1.
C6_FlowCompounds ==
    (h_op = "stamp_dab" /\ ~Lt001(h_arg.alpha) /\ h_arg.alpha < ONE) =>
        /\ FlowAlpha >= FlowAlphaPre
        /\ (ONE - FlowAlphaPre) * h_arg.alpha >= ONE => FlowAlpha > FlowAlphaPre
        /\ nstamps >= 2 => FlowAlpha > h_arg.alpha
        /\ FlowAlpha <= ONE
        /\ Abs(FlowAlpha - (ONE - Pow(ONE - h_arg.alpha, nstamps))) <= nstamps

\* a third or later stamp that raised the alpha and left it below 1
C6_Witness ==
    /\ h_op = "stamp_dab"
    /\ nstamps >= 3
    /\ ~Lt001(h_arg.alpha)
    /\ FlowAlpha > FlowAlphaPre
    /\ FlowAlpha < ONE

----------------------------------------------------------------------------
(* Properties of the BrushStamper, under SpecStamper *)

\* distance between the first two samples of the stroke
PairDistance == distance_to(from_raw(samples[1]), from_raw(samples[2]))

\* the stamper has been given exactly two samples since the last reset
PairDone == s_op = "process_point" /\ Len(samples) = 2

\* the dab size the configuration asks for at a pressure
DabSizeAt(cfg, pressure) ==
    IF cfg.pressure_size
    THEN Scale(cfg.size, cfg.min_size_ratio)
         + Scale(cfg.size - Scale(cfg.size, cfg.min_size_ratio), pressure)
    ELSE cfg.size

\* C2: the first process_point after new, begin_stroke or finish_stroke
\* returns exactly one Dab, at the sample's x, y.
C2_FirstPointEmitsDab ==
    (s_op = "process_point" /\ Len(samples) = 1) =>
        /\ Len(dabs) = 1
        /\ dabs[1].x = samples[1].x
        /\ dabs[1].y = samples[1].y

\* a first sample away from the origin has been processed
C2_Witness ==
    /\ s_op = "process_point"
    /\ Len(samples) = 1
    /\ samples[1].x > 0
    /\ Len(dabs) = 1

\* C8 as stated: two samples closer than size * spacing, whatever their
\* pressures, yield at most one Dab over both calls.
C8_Original ==
    (PairDone /\ PairDistance < Spacing(config)) => Len(stroke_dabs) <= 1

\* C8 amended: two samples closer than max(s * spacing, 1 pixel), s being the
\* dab size at the lower of their two pressures, yield at most one Dab.
C8_ClosePoints ==
    LET lower == Min(samples[1].pressure, samples[2].pressure)
    IN (PairDone /\ PairDistance < Max(Scale(DabSizeAt(config, lower), config.spacing), PX))
           => Len(stroke_dabs) <= 1

\* two distinct samples, the second at reduced pressure under a
\* pressure-sized brush, closer than the reduced threshold
C8_Witness ==
    /\ PairDone
    /\ config.pressure_size
    /\ samples[2].pressure < ONE
    /\ PairDistance > 0
    /\ PairDistance < Max(Scale(DabSizeAt(config, samples[2].pressure), config.spacing), PX)
    /\ Len(stroke_dabs) = 1

\* C9 as stated: two samples size * spacing * 10 apart yield at least 5 Dabs,
\* whatever the configuration.
C9_Original ==
    (PairDone /\ PairDistance = 10 * Spacing(config)) => Len(stroke_dabs) >= 5

\* C9 amended: the same, for configurations whose size * spacing is at least
\* one pixel.
C9_FarPoints ==
    (PairDone /\ PairDistance = 10 * Spacing(config) /\ Spacing(config) >= PX)
        => Len(stroke_dabs) >= 5

\* two samples ten spacings apart, the second at pressure 0
C9_Witness ==
    /\ PairDone
    /\ PairDistance = 10 * Spacing(config)
    /\ Spacing(config) >= PX
    /\ samples[2].pressure = 0
    /\ Len(stroke_dabs) >= 5

\* the stroke so far runs along the x axis in the direction of growing x, at
\* full pressure
StraightStroke ==
    /\ \A i \in 1..Len(samples) : samples[i].y = 0 /\ samples[i].pressure = ONE
    /\ \A i \in 1..(Len(samples) - 1) : samples[i].x <= samples[i + 1].x

\* C10: on such a stroke the k-th dab of the stroke lies (k - 1) thresholds
\* max(size * spacing, 1 pixel) after the first sample, to within a hundredth
\* of a pixel, however the path is cut into samples.
C10_EvenSpacing ==
    StraightStroke =>
        \A k \in 1..Len(stroke_dabs) :
            /\ stroke_dabs[k].y = 0
            /\ Abs(stroke_dabs[k].x
                   - (samples[1].x + (k - 1) * Max(Spacing(config), PX))) <= PX \div 100

\* C10 on strokes of at most three samples, where it holds
C10_UpToThreeSamples == Len(samples) <= 3 => C10_EvenSpacing

\* the dabs of the last call are at most the distance available to it (the
\* accumulated distance carried in plus the path length walked) divided by
\* the smallest threshold it used, which is at least one pixel
DabBound ==
    (s_op = "process_point" /\ Len(samples) > 1 /\ Len(dabs) > 0) =>
        /\ min_threshold >= PX
        /\ Len(dabs) * min_threshold <= acc_in + path_len

\* C11: every process_point call returns (none panics), whatever the
\* configuration, size 0 and spacing 0 included, and returns no more dabs
\* than the distance available to it divided by the smallest threshold.
C11_Terminates == ~unwound /\ DabBound

\* C12 as stated: under a configuration with size > 0 every Dab returned by
\* process_point has size > 0, whatever the pressure.
C12_Original ==
    (s_op = "process_point" /\ config.size > 0) =>
        \A i \in 1..Len(dabs) : dabs[i].size > 0

\* C12 amended: under a configuration with size > 0 every Dab has a size of
\* at least size * min_size_ratio, hence >= 0; the size is > 0 when
\* pressure_size is off, min_size_ratio is > 0 or the pressure at the dab is
\* at least 0.001, and it is 0 at pressure 0 otherwise.
C12_DabSize ==
    (s_op = "process_point" /\ config.size > 0) =>
        \A i \in 1..Len(dabs) :
            /\ dabs[i].size >= Scale(config.size, config.min_size_ratio)
            /\ dabs[i].size >= 0
            /\ (~config.pressure_size \/ config.min_size_ratio > 0 \/ ~Lt001(dabs[i].pressure))
                   => dabs[i].size > 0
            /\ (config.pressure_size /\ config.min_size_ratio = 0 /\ dabs[i].pressure = 0)
                   => dabs[i].size = 0

\* a dab at pressure 0 under a pressure-sized brush with a size floor
C12_Witness ==
    /\ s_op = "process_point"
    /\ config.pressure_size
    /\ config.min_size_ratio > 0
    /\ \E i \in 1..Len(dabs) : dabs[i].pressure = 0 /\ dabs[i].size > 0

\* the last sample lies where the sample before it lies
DuplicateSample ==
    /\ Len(samples) >= 2
    /\ samples[Len(samples)].x = samples[Len(samples) - 1].x
    /\ samples[Len(samples)].y = samples[Len(samples) - 1].y

\* C13: the process_point call that consumes a sample at zero distance from
\* the previous sample of the stroke returns no dabs, whatever the sample's
\* pressure and however many samples the history holds.
C13_DuplicateSample ==
    (s_op = "process_point" /\ DuplicateSample) => dabs = << >>

\* C13 with the duplicate at the pressure of the sample before it and at
\* most three samples in the history, where it holds
C13_SamePressureUpToThree ==
    (/\ s_op = "process_point" /\ DuplicateSample /\ Len(samples) <= 3
     /\ samples[Len(samples)].pressure = samples[Len(samples) - 1].pressure)
        => dabs = << >>

----------------------------------------------------------------------------
(* Properties of Rect, under SpecRect *)

\* a rect that is the sentinel Rect::empty() or has pixels in it
Proper(r) == r = Rect_empty \/ ~is_empty(r)

\* expand calls commute, and expand of Rect::empty() gives the square
\* [x - r, x + r + 1) x [y - r, y + r + 1)
ExpandLaws ==
    fn_name = "expand" =>
        LET p == fn_args[2] IN
        /\ fn_result.pq = fn_result.qp
        /\ fn_result.on_empty
              = Rect_new(p[1] - p[3], p[2] - p[3], p[1] + p[3] + 1, p[2] + p[3] + 1)

\* C14 as stated: union is commutative and associative and has Rect::empty()
\* as identity on both sides, for all rects, empty rects other than the
\* sentinel included; expand calls commute and expand of the empty rect is
\* the square around the point.
C14_Original ==
    /\ fn_name = "union" =>
          /\ fn_result.ab = fn_result.ba
          /\ fn_result.ab_c = fn_result.a_bc
          /\ fn_result.a_empty = fn_args[1]
          /\ fn_result.empty_a = fn_args[1]
    /\ ExpandLaws

\* C14 amended: the same laws for rects that are each the sentinel
\* Rect::empty() or non-empty; a.union(e) = a for every rect a and every
\* empty rect e, sentinel or not.
C14_RectMonoid ==
    /\ fn_name = "union" =>
          LET a == fn_args[1]
              b == fn_args[2]
              c == fn_args[3]
          IN /\ (Proper(a) /\ Proper(b)) => fn_result.ab = fn_result.ba
             /\ (Proper(a) /\ Proper(b) /\ Proper(c))
                    => fn_result.ab_c = fn_result.a_bc
             /\ fn_result.a_empty = a
             /\ Proper(a) => fn_result.empty_a = a
             /\ is_empty(b) => fn_result.ab = a
    /\ ExpandLaws

\* the union of the sentinel, a rect with pixels and a rect that is empty
\* without being the sentinel
C14_Witness ==
    /\ fn_name = "union"
    /\ fn_args[1] = Rect_empty
    /\ ~is_empty(fn_args[2])
    /\ is_empty(fn_args[3]) /\ fn_args[3] # Rect_empty
    /\ fn_result.ab_c = fn_args[2]

----------------------------------------------------------------------------
(* Properties of the blend functions, under SpecBlend *)

Blended == fn_name \in BlendFunc

\* C15 as stated: each of the six blend functions returns exactly the
\* destination for a source of alpha 0 and exactly the source for a
\* destination of alpha 0.
C15_Original ==
    Blended =>
        /\ fn_args[1].a = 0 => fn_result = fn_args[2]
        /\ fn_args[2].a = 0 => fn_result = fn_args[1]

\* C15: each of the six blend functions returns exactly the destination for
\* a source of alpha 0, and exactly the source for a destination of alpha 0
\* when the source's alpha is 0 or at least 0.001.
C15_TransparentOperand ==
    Blended =>
        /\ fn_args[1].a = 0 => fn_result = fn_args[2]
        /\ fn_args[2].a = 0 /\ (fn_args[1].a = 0 \/ ~Lt001(fn_args[1].a))
               => fn_result = fn_args[1]

\* a mode other than Normal given a transparent source over a translucent
\* destination
C15_Witness ==
    /\ fn_name = "Overlay"
    /\ fn_args[1].a = 0
    /\ fn_args[2].a > 0 /\ fn_args[2].a < ONE
    /\ fn_result = fn_args[2]

white == Pixel_new(ONE, ONE, ONE, ONE)
black == Pixel_new(0, 0, 0, ONE)

\* Multiply under an opaque white source, or Screen under an opaque black one
NeutralSource ==
    \/ fn_name = "Multiply" /\ fn_args[1] = white
    \/ fn_name = "Screen" /\ fn_args[1] = black

\* two pixels no further apart than one rounding step in each component
WithinRounding(p, q) ==
    /\ Abs(p.r - q.r) <= 1 /\ Abs(p.g - q.g) <= 1
    /\ Abs(p.b - q.b) <= 1 /\ Abs(p.a - q.a) <= 1

\* C16 as stated: Multiply with an opaque white source and Screen with an
\* opaque black source return the destination unchanged, whatever the
\* destination's alpha.
C16_Original == NeutralSource => fn_result = fn_args[2]

\* C16: Multiply with an opaque white source returns an opaque destination
\* unchanged, and Screen with an opaque black source returns an opaque
\* destination unchanged up to rounding; a destination of alpha below 0.001
\* is replaced by the source, and any other destination comes back opaque.
C16_NeutralOverOpaque ==
    NeutralSource =>
        /\ fn_args[2].a = ONE /\ fn_name = "Multiply"
               => fn_result = fn_args[2]
        /\ fn_args[2].a = ONE /\ fn_name = "Screen"
               => WithinRounding(fn_result, fn_args[2])
        /\ Lt001(fn_args[2].a) => fn_result = fn_args[1]
        /\ ~Lt001(fn_args[2].a) => fn_result.a = ONE

\* white multiplied over an opaque colour that is neither white nor black
C16_Witness ==
    /\ fn_name = "Multiply" /\ fn_args[1] = white
    /\ fn_args[2].a = ONE
    /\ fn_args[2].g > 0 /\ fn_args[2].g < ONE
    /\ fn_result = fn_args[2]

----------------------------------------------------------------------------
(* Properties of pixel access and dirty tracking, under SpecPixels *)

OutOfRange == h_arg[1] >= width \/ h_arg[2] >= height

\* the pixel indices (0-based) whose value the last call changed
Changed == { k \in 0..(Len(data) - 1) : data[k + 1] # h_pre.data[k + 1] }

\* the pixels of the raster that the bounding box of the last dab covers
DabBox ==
    LET r == Max(h_arg.radius, PX \div 2)
    IN { k \in 0..(width * height - 1) :
           /\ k % width >= Floor(h_arg.cx - r) /\ k % width <= Ceil(h_arg.cx + r)
           /\ k \div width >= Floor(h_arg.cy - r) /\ k \div width <= Ceil(h_arg.cy + r) }

\* C17: get_pixel at x >= width or y >= height returns the transparent
\* pixel, set_pixel and blend_pixel there leave the buffer as it was, and
\* stamp_dab changes only raster pixels that its disc's bounding box covers,
\* keeping the raster's size.
C17_OutOfBounds ==
    /\ h_op = "get_pixel" /\ OutOfRange => h_ret = transparent /\ data = h_pre.data
    /\ h_op \in { "set_pixel", "blend_pixel" } /\ OutOfRange => data = h_pre.data
    /\ h_op = "stamp_dab" => Len(data) = width * height /\ Changed \subseteq DabBox

\* a write at x = width, whose index falls inside the array, after a dab over
\* the left edge has left ink in the raster
C17_Witness ==
    /\ h_op = "set_pixel"
    /\ h_arg[1] = width /\ h_arg[2] < height - 1
    /\ h_pre.op = "stamp_dab"
    /\ \E k \in 0..(Len(data) - 1) : data[k + 1].a > 0
    /\ data = h_pre.data

----------------------------------------------------------------------------
(* Properties of the tablet event queue, under SpecInput *)

\* what the polls have handed to the caller so far
Delivered == poll_events

\* the events poll appended in its current or last call
Appended == SubSeq(poll_events, Len(poll_pre) + 1, Len(poll_events))

\* C18: under any interleaving of pushes and polls, the events handed to the
\* caller followed by those still queued are the events pushed, in push
\* order and each once; a poll appends after what the caller's vector held,
\* leaves the queue empty and returns the number of events it appended.
C18_DeliveredOnceInOrder ==
    /\ Delivered \o events = sent
    /\ \A i, j \in 1..Len(sent) : i < j => sent[i].seq < sent[j].seq
    /\ pc["consumer"] = "poll_return" =>
          /\ SubSeq(poll_events, 1, Len(poll_pre)) = poll_pre
          /\ events = << >>
          /\ count = Len(Appended)
          /\ poll_events = sent
    /\ pc["consumer"] = "idle" => poll_ret = Len(Appended)

\* a second poll about to return the two events of one WinTab batch, which
\* it appended behind the event the first poll delivered
C18_Witness ==
    /\ pc["consumer"] = "poll_return"
    /\ Len(poll_pre) = 1
    /\ count = 2
    /\ Len(poll_events) = 3
    /\ pc["frontend"] = "idle" /\ pc["wintab"] = "idle"
    /\ poll_events[2].kind = "ProximityEnter"

\* rect a lies within rect b, side by side
Within(a, b) ==
    /\ b.left <= a.left /\ b.top <= a.top
    /\ a.right <= b.right /\ a.bottom <= b.bottom

\* the square that stamp_dab(d) is to cover
DabSquare(d) ==
    LET r == Max(d.radius, PX \div 2)
    IN Rect_new(Trunc(d.cx) - Ceil(r), Trunc(d.cy) - Ceil(r),
                Trunc(d.cx) + Ceil(r) + 1, Trunc(d.cy) + Ceil(r) + 1)

\* C19: after every stamp_dab the dirty rect contains the square
\* [trunc(cx) - ceil(r), trunc(cx) + ceil(r) + 1) x [trunc(cy) - ceil(r),
\* trunc(cy) + ceil(r) + 1) with r = max(radius, 0.5), whether or not the dab
\* left ink; and no call but begin_stroke makes the dirty rect smaller.
C19_DirtyGrows ==
    /\ h_op = "stamp_dab" => Within(DabSquare(h_arg), dirty_rect)
    /\ h_op \notin { "new", "begin_stroke" } => Within(h_pre.dirty, dirty_rect)

\* a dab too faint to change any pixel that has widened the dirty rect left
\* by a dab centred left of the raster
C19_Witness ==
    /\ h_op = "stamp_dab"
    /\ h_pre.op = "stamp_dab"
    /\ active
    /\ data = h_pre.data
    /\ ~is_empty(h_pre.dirty)
    /\ dirty_rect # h_pre.dirty
    /\ dirty_rect.left = -1

\* pixel k (0-based index) lies in rect
Covers(rect, k) ==
    /\ k % width >= rect.left /\ k % width < rect.right
    /\ k \div width >= rect.top /\ k \div width < rect.bottom

\* the smallest rect holding the pixels of set ks, Rect::empty() for none
BoundingBox(ks) ==
    IF ks = {} THEN Rect_empty
    ELSE LET xs == { k % width : k \in ks }
             ys == { k \div width : k \in ks }
         IN Rect_new(CHOOSE x \in xs : \A o \in xs : x <= o,
                     CHOOSE y \in ys : \A o \in ys : y <= o,
                     (CHOOSE x \in xs : \A o \in xs : x >= o) + 1,
                     (CHOOSE y \in ys : \A o \in ys : y >= o) + 1)

Modifies == h_op \in { "stamp_dab", "set_pixel", "blend_pixel" }

\* C20: the dirty rect contains every pixel that stamp_dab, set_pixel or
\* blend_pixel changed, and after the first such call on a cleared buffer it
\* is the smallest rect that does.
C20_MinimalBox ==
    Modifies =>
        /\ \A k \in Changed : Covers(dirty_rect, k)
        /\ h_pre.op \in { "new", "begin_stroke" } => dirty_rect = BoundingBox(Changed)

\* the part of C20 that holds: the dirty rect contains every pixel that
\* stamp_dab changed.
C20_StampCovered ==
    h_op = "stamp_dab" => \A k \in Changed : Covers(dirty_rect, k)

----------------------------------------------------------------------------
(* Further properties of the StrokeBuffer, under SpecBuffer *)

EndedActive == h_op = "end_stroke" /\ h_pre.active

\* bytes of the target (1-based positions) that the last call changed
ChangedBytes == { k \in 1..Len(layer_data) : layer_data[k] # h_pre.layer[k] }

\* C21: end_stroke on an active stroke returns a rect that is empty or lies
\* within the raster with 0 <= left < right <= width and 0 <= top < bottom
\* <= height; it changes no target byte outside that rect, inside it only
\* pixels whose buffer alpha is at least 0.001, and neither the buffer's
\* pixels nor its dirty rect.
C21_EndStrokeFrame ==
    EndedActive =>
        /\ \/ h_ret = Rect_empty
           \/ /\ 0 <= h_ret.left /\ h_ret.left < h_ret.right /\ h_ret.right <= width
              /\ 0 <= h_ret.top /\ h_ret.top < h_ret.bottom /\ h_ret.bottom <= height
        /\ \A k \in ChangedBytes :
              /\ Covers(h_ret, (k - 1) \div 4)
              /\ ~Lt001(data[((k - 1) \div 4) + 1].a)
        /\ data = h_pre.data
        /\ dirty_rect = h_pre.dirty

\* an end_stroke that changed the target inside a rect cut at the raster's
\* left edge, and passed over a pixel of that rect that holds no ink
C21_Witness ==
    /\ EndedActive
    /\ h_pre.dirty.left < 0 /\ h_ret.left = 0
    /\ ChangedBytes # {}
    /\ \E k \in 0..(width * height - 1) : Covers(h_ret, k) /\ Lt001(data[k + 1].a)

----------------------------------------------------------------------------
(* Further properties of the BrushStamper, under SpecStamper *)

\* size * min_size_ratio + (size - size * min_size_ratio) * pressure
LerpedSize(cfg, pressure) ==
    Scale(cfg.size, cfg.min_size_ratio)
        + Scale(cfg.size - Scale(cfg.size, cfg.min_size_ratio), pressure)

\* flow * min_alpha_ratio + (flow - flow * min_alpha_ratio) * pressure
LerpedAlpha(cfg, pressure) ==
    Mul(cfg.flow, cfg.min_alpha_ratio)
        + Mul(cfg.flow - Mul(cfg.flow, cfg.min_alpha_ratio), pressure)

\* C22: every Dab that process_point returns has pressure in [0,1], size =
\* size with pressure_size off and the lerp from size * min_size_ratio to
\* size at the dab's pressure otherwise, alpha = flow with pressure_alpha
\* off and the lerp from flow * min_alpha_ratio to flow otherwise; among the
\* dabs of a call size and alpha do not decrease as pressure rises, and they
\* never exceed size and flow.
C22_DabSizeAlpha ==
    s_op = "process_point" =>
        /\ \A i \in 1..Len(dabs) :
              /\ 0 <= dabs[i].pressure /\ dabs[i].pressure <= ONE
              /\ dabs[i].size = IF config.pressure_size
                                THEN LerpedSize(config, dabs[i].pressure)
                                ELSE config.size
              /\ dabs[i].alpha = IF config.pressure_alpha
                                 THEN LerpedAlpha(config, dabs[i].pressure)
                                 ELSE config.flow
              /\ dabs[i].size <= config.size
              /\ dabs[i].alpha <= config.flow
        /\ \A i, j \in 1..Len(dabs) :
              dabs[i].pressure <= dabs[j].pressure =>
                  /\ dabs[i].size <= dabs[j].size
                  /\ dabs[i].alpha <= dabs[j].alpha

\* a call with four samples in history (spline resampling) that returned
\* dabs at two pressures strictly between 0 and 1, under a brush with size
\* and alpha floors
C22_Witness ==
    /\ s_op = "process_point"
    /\ Len(point_history) = 4
    /\ config.pressure_size /\ config.min_size_ratio > 0
    /\ \E i, j \in 1..Len(dabs) :
          /\ 0 < dabs[i].pressure /\ dabs[i].pressure < dabs[j].pressure
          /\ dabs[j].pressure < ONE
          /\ dabs[i].size < dabs[j].size

----------------------------------------------------------------------------
(* Properties of successive strokes, under SpecStrokes *)

\* the stamper fields as new and begin_stroke leave them, and no dab yet
FreshStroke ==
    [acc |-> 0, last |-> None, hist |-> << >>, start |-> TRUE, dabs |-> << >>]

\* process_point as a function of the fields it reads: the fields and the
\* dabs of the stroke after the call
ProcessFrom(cfg, st, point) ==
    LET path_point == from_raw(point)
        hist == push_history(st.hist, path_point)
    IN IF st.start
       THEN [acc |-> st.acc, last |-> Some(path_point), hist |-> hist, start |-> FALSE,
             dabs |-> Append(st.dabs, create_dab(cfg, path_point))]
       ELSE IF Len(hist) < 2 \/ interpolate_path_panics(cfg, hist)
       THEN [st EXCEPT !.hist = hist]
       ELSE LET path_points == interpolate_path(cfg, hist)
                after == ForPathPoints(cfg, path_points, 1, Len(path_points),
                             [acc |-> st.acc, last |-> st.last, dabs |-> << >>,
                              len |-> 0, thr |-> I32_MAX])
            IN [acc |-> after.acc, last |-> after.last, hist |-> hist, start |-> FALSE,
                dabs |-> st.dabs \o after.dabs]

RECURSIVE StrokeFrom(_, _, _)
\* the first n samples of ss processed by a stamper fresh from begin_stroke
StrokeFrom(cfg, ss, n) ==
    IF n = 0 THEN FreshStroke ELSE ProcessFrom(cfg, StrokeFrom(cfg, ss, n - 1), ss[n])

\* C23: finish_stroke returns no dab and leaves accumulated distance,
\* last-stamp point, sample history and stroke-start flag as begin_stroke
\* leaves them; the dabs of a stroke are those a fresh stamper with the same
\* config returns for the stroke's samples, whatever strokes came before.
C23_StrokesIndependent ==
    /\ s_op = "finish_stroke" =>
          /\ dabs = << >>
          /\ accumulated_distance = 0
          /\ last_stamp_point = None
          /\ point_history = << >>
          /\ is_stroke_start
    /\ s_op = "process_point" =>
          LET alone == StrokeFrom(config, samples, Len(samples))
          IN /\ stroke_dabs = alone.dabs
             /\ accumulated_distance = alone.acc
             /\ last_stamp_point = alone.last
             /\ point_history = alone.hist

\* the second sample of a stroke that follows a finished stroke of at least
\* two samples, with dabs returned in both calls
C23_Witness ==
    /\ fn_name = "finish_stroke" /\ fn_args[1] >= 2
    /\ s_op = "process_point"
    /\ Len(samples) = 2
    /\ Len(stroke_dabs) >= 3

----------------------------------------------------------------------------
(* Properties of input points, under SpecPoints *)

\* f is a number between lo and hi
Between(f, lo, hi) == ~f.nan /\ f.inf = 0 /\ lo <= f.v /\ f.v <= hi

\* the point is one an Input event is said to carry
ValidPoint(pt) ==
    /\ Between(pt.pressure, 0, ONE)
    /\ Between(pt.tilt_x, -(90 * DEG), 90 * DEG)
    /\ Between(pt.tilt_y, -(90 * DEG), 90 * DEG)

\* the raw value is a number at most 0, respectively at least 1
AtMostZero(f) == ~f.nan /\ (f.inf < 0 \/ (f.inf = 0 /\ f.v <= 0))
AtLeastOne(f) == ~f.nan /\ (f.inf > 0 \/ (f.inf = 0 /\ f.v >= ONE))

\* what C24 says of one call
PointLaws ==
    /\ fn_name \in { "push_input", "wintab_packet" } => ValidPoint(fn_result)
    /\ fn_name = "apply" =>
          /\ Between(fn_result, 0, ONE)
          /\ AtMostZero(fn_args[2]) => fn_result = Fin(0)
          /\ AtLeastOne(fn_args[2]) => fn_result = Fin(ONE)

\* C24: every point built by push_input or by the WinTab polling thread has
\* pressure in [0,1] and tilts in [-90,90] whatever raw values came in, and
\* each pressure curve maps inputs <= 0 to 0, inputs >= 1 to 1 and every
\* input into [0,1].
C24_PointsInRange == PointLaws

\* the raw values of the last call: none of them NaN, and a WinTab pressure
\* range that is not 0..0
NumbersOnly ==
    /\ fn_name = "apply" => ~fn_args[2].nan
    /\ fn_name = "push_input" => ~fn_args[2].nan /\ ~fn_args[3].nan /\ ~fn_args[4].nan
    /\ fn_name = "wintab_packet" => fn_args[2] # 0 \/ fn_args[3] # 0

\* the part of C24 that holds: the same for raw values that are numbers.
C24_NumbersInRange == NumbersOnly => PointLaws

----------------------------------------------------------------------------
(* Properties of the sample history, under SpecStamper *)

\* the n-th newest sample of the stroke, as a path point
Newest(n) == from_raw(samples[Len(samples) + 1 - n])

\* the history is the stroke's last samples, four at most, oldest first
HistoryIsRecent ==
    /\ Len(point_history) = Min(Len(samples), 4)
    /\ \A i \in 1..Len(point_history) :
          point_history[i] = Newest(Len(point_history) + 1 - i)

\* the points resampled from the history are some, and the last is pt
PathEndsAt(pt) ==
    LET path_points == interpolate_path(config, point_history)
    IN Len(path_points) > 0 /\ path_points[Len(path_points)] = pt

\* where the traversal of the last call ended: at the newest sample with 2
\* or 3 samples in history, at the 2nd-newest with 4
TraversalEnd ==
    /\ Len(point_history) \in { 2, 3 } =>
          /\ last_stamp_point = Some(Newest(1))
          /\ PathEndsAt(Newest(1))
    /\ Len(point_history) = 4 =>
          /\ last_stamp_point = Some(Newest(2))
          /\ PathEndsAt(Newest(2))

----------------------------------------------------------------------------
(* Properties of the ink a StrokeBuffer holds, under SpecBuffer *)

\* pixels (0-based index) that hold ink: alpha at least 0.001
Inked == { k \in 0..(width * height - 1) : ~Lt001(data[k + 1].a) }

\* the four bytes end_stroke writes for a buffer pixel over target pixel k
Composite(pixel, layer, k, opacity) ==
    LET clamped_pixel == with_alpha(pixel, apply_ceiling(pixel.a, opacity))
        layer_pixel == from_rgba_u8(layer[4 * k + 1], layer[4 * k + 2],
                                    layer[4 * k + 3], layer[4 * k + 4])
    IN to_rgba_u8(blend_normal_premul(clamped_pixel, layer_pixel))

\* C26: after any sequence of new, resize, begin_stroke, stamp_dab and
\* end_stroke, every buffer pixel with alpha at least 0.001 lies inside the
\* dirty rect clamped to the buffer bounds, so end_stroke on an active stroke
\* composites every inked pixel, whatever the dab centres were.
C26_InkInsideDirty ==
    /\ \A k \in Inked : Covers(clamp_to(dirty_rect, width, height), k)
    /\ EndedActive =>
          \A k \in Inked \cap Shared :
              << layer_data[4 * k + 1], layer_data[4 * k + 2],
                 layer_data[4 * k + 3], layer_data[4 * k + 4] >>
                  = Composite(data[k + 1], h_pre.layer, k, h_arg)

\* an end_stroke that merged a stroke whose only ink is in the leftmost
\* column, left there by the dab centred at (-0.5, 0.5)
C26_Witness ==
    /\ EndedActive
    /\ dirty_rect.left < 0
    /\ Inked # {}
    /\ \A k \in Inked : k % width = 0
    /\ ChangedBytes # {}

\* the last call was a resize
Resized == h_op = "resize"

\* an end_stroke step taken while resize is the latest of new, resize,
\* begin_stroke and end_stroke
EndAfterResize == h_life = "resize" /\ nops' = nops + 1 /\ h_op' = "end_stroke"

\* every index end_stroke forms from the current dimensions is in the buffer
IndexedByDimensions == Len(data) = width * height

\* C27: resize, at any time and also during an active stroke, makes every
\* pixel transparent, empties the dirty rect and sets active false; an
\* end_stroke after a resize with no begin_stroke in between returns an empty
\* rect and leaves the target unchanged; the buffer always has width * height
\* pixels, so no end_stroke indexes it with old dimensions.
C27_ResizeAbandons ==
    /\ [](Resized =>
            /\ width = h_arg[1] /\ height = h_arg[2]
            /\ data = ClearData(width, height)
            /\ dirty_rect = Rect_empty
            /\ ~active)
    /\ []IndexedByDimensions
    /\ [][EndAfterResize => (h_ret' = Rect_empty /\ layer_data' = layer_data)]_vars

\* a resize to other dimensions during an active stroke that held ink
C27_Witness ==
    /\ Resized
    /\ h_pre.active
    /\ \E i \in 1..Len(h_pre.data) : ~Lt001(h_pre.data[i].a)
    /\ ~is_empty(h_pre.dirty)
    /\ width # h_pre.width

\* the last call was a stamp_dab on a buffer with no active stroke
StampedInactive == h_op = "stamp_dab" /\ ~h_pre.active

\* the pixels and the dirty rect a stamp_dab(d) leaves, computed from the
\* state before the call
StampEffect(d) ==
    /\ data = stamp_data(h_pre.data, width, height, d)
    /\ dirty_rect = expand(h_pre.dirty, Trunc(d.cx), Trunc(d.cy), dab_reach(d.radius))

\* C28: stamp_dab does not look at active: on an inactive buffer it changes
\* pixels and dirty rect as on an active one, but that ink reaches no target,
\* since the target changes only in an end_stroke on an active stroke and
\* begin_stroke clears the buffer before activating; a begin_stroke during
\* an active stroke discards the ink not yet merged.
C28_InactiveInkIsLost ==
    /\ h_op = "stamp_dab" =>
          /\ StampEffect(h_arg)
          /\ active = h_pre.active
          /\ ~is_empty(dirty_rect)
          /\ h_pre.data = ClearData(width, height) => data # h_pre.data
    /\ layer_data # h_pre.layer => EndedActive
    /\ h_op = "begin_stroke" =>
          /\ data = ClearData(width, height)
          /\ dirty_rect = Rect_empty
          /\ layer_data = h_pre.layer

\* a stamp_dab after the stroke ended, which inked a clean pixel and grew
\* the dirty rect
C28_Witness ==
    /\ StampedInactive
    /\ h_life = "end_stroke"
    /\ dirty_rect # h_pre.dirty
    /\ \E i \in 1..Len(data) : Lt001(h_pre.data[i].a) /\ ~Lt001(data[i].a)

\* 0 <= r, g, b <= a <= 1
ValidPremultiplied(p) ==
    /\ 0 <= p.r /\ p.r <= p.a
    /\ 0 <= p.g /\ p.g <= p.a
    /\ 0 <= p.b /\ p.b <= p.a
    /\ p.a <= ONE

\* C29: after any sequence of begin_stroke and stamp_dab whose colour
\* components, alpha and hardness are in [0, 1], every buffer pixel is a
\* valid premultiplied pixel: 0 <= r, g, b <= a <= 1.
C29_ValidPremultiplied == \A i \in 1..Len(data) : ValidPremultiplied(data[i])

\* a second stamp_dab that blended coloured, partly transparent ink over
\* ink, leaving a pixel whose channels differ and lie strictly below alpha
C29_Witness ==
    /\ h_op = "stamp_dab"
    /\ nstamps = 2
    /\ \E i \in 1..Len(data) :
          /\ h_pre.data[i].a > 0
          /\ data[i] # h_pre.data[i]
          /\ 0 < data[i].g /\ data[i].g < data[i].r
          /\ data[i].r < data[i].a /\ data[i].a < ONE

----------------------------------------------------------------------------
(* Further properties of the blend functions, under SpecBlend *)

\* source and destination of the last blend both hold ink
BothInked == Blended /\ ~Lt001(fn_args[1].a) /\ ~Lt001(fn_args[2].a)

\* source and destination of the last blend are both fully opaque
BothOpaque == Blended /\ fn_args[1].a = ONE /\ fn_args[2].a = ONE

\* the colour the claim gives for a channel of source s over destination d
OpaqueChannel(func, s, d) ==
    CASE func = "Normal" -> s
      [] func = "Multiply" -> Mul(s, d)
      [] func = "Screen" -> ONE - Mul(ONE - s, ONE - d)
      [] func = "Overlay" -> IF 2 * d < ONE THEN 2 * Mul(s, d)
                                            ELSE ONE - 2 * Mul(ONE - s, ONE - d)
      [] func = "Darken" -> IF s <= d THEN s ELSE d
      [] func = "Lighten" -> IF s >= d THEN s ELSE d

\* C30: for a source and a destination that both have alpha at least 0.001,
\* Multiply, Screen, Overlay, Darken and Lighten return the alpha that Normal
\* returns, srcA + dstA * (1 - srcA); when both are fully opaque the result
\* is opaque and its colour is, per channel, s*d, 1-(1-s)(1-d),
\* (d < 0.5 ? 2sd : 1-2(1-s)(1-d)), min(s, d) and max(s, d) respectively,
\* and Normal returns the source.
C30_ModesShareAlpha ==
    /\ BothInked =>
          /\ fn_result.a = fn_args[1].a + Mul(fn_args[2].a, ONE - fn_args[1].a)
          /\ fn_result.a = blend_normal_premul(fn_args[1], fn_args[2]).a
    /\ BothOpaque =>
          /\ fn_result = Pixel_new(OpaqueChannel(fn_name, fn_args[1].r, fn_args[2].r),
                                  OpaqueChannel(fn_name, fn_args[1].g, fn_args[2].g),
                                  OpaqueChannel(fn_name, fn_args[1].b, fn_args[2].b),
                                  ONE)
          /\ fn_name = "Normal" => fn_result = fn_args[1]

\* an Overlay of two opaque pixels whose destination has a channel below and
\* a channel above one half, giving a pixel that is neither operand
C30_Witness ==
    /\ BothOpaque
    /\ fn_name = "Overlay"
    /\ 2 * fn_args[2].r < ONE /\ 2 * fn_args[2].g >= ONE
    /\ fn_args[1] # fn_args[2]
    /\ fn_result # fn_args[1] /\ fn_result # fn_args[2]

====
